---- MODULE Spec2Model ----
(***************************************************************************)
(* Model of the sandbox orchestrator (src/sandbox/sandbox_manager.py):     *)
(* SandboxManager.create_sandbox, the worker thread _run_sandbox, and      *)
(* cleanup_sandbox, interleaved with the containers of the Docker engine.  *)
(***************************************************************************)
EXTENDS Integers, Sequences, FiniteSets, TLC

\* Number of create_sandbox() calls explored over every output document.
MaxSandboxes == 1

\* Number of create_sandbox() calls explored for the interleavings of sandboxes.
MaxManySandboxes == 2

\* Number of SandboxManager objects constructed one after the other, and of
\* create_sandbox() calls explored over their lifetimes.
MaxManagers == 2
MaxManagerSandboxes == 1

\* Number of HTTP requests sent to the proxy server, one after the other.
MaxRequests == 2

Ids == 1..(IF MaxManySandboxes > MaxSandboxes THEN MaxManySandboxes ELSE MaxSandboxes)

\* The threads that call cleanup_sandbox: the driver's thread, and the worker of
\* each sandbox while it runs the on_finish callback.
Main == 0
Threads == {Main} \cup Ids

SANDBOX_NETWORK_NAME == "sandbox-network"
BRIDGE_NETWORK_NAME == "bridge"

\* class SandboxNetworkMode
SandboxNetworkMode == {"sandbox", "public", "both"}
\* What a caller can pass as network_mode: a member of the enum, or anything else.
NetworkModeArgs == SandboxNetworkMode \cup {"unknown"}

-----------------------------------------------------------------------------
(* Python values, as [kind, val] records.                                  *)

None == [kind |-> "None", val |-> "None"]
Str(s) == [kind |-> "str", val |-> s]
Num(n) == [kind |-> "int", val |-> n]
List(s) == [kind |-> "list", val |-> s]
Dict(f) == [kind |-> "dict", val |-> f]
\* str(e) of an exception e
Exc(e) == [kind |-> "exc", val |-> e]
\* an f-string: a literal prefix followed by one formatted value
FStr(prefix, v) == [kind |-> "fstr", val |-> <<prefix, v>>]
\* traceback.format_exc() while handling exception e
format_exc(e) == [kind |-> "traceback", val |-> e]
\* container.logs(stderr=False).decode("utf-8") of the container named sandbox_<id>
ContainerLogs(id) == [kind |-> "logs", val |-> id]

\* Exceptions of the Docker SDK calls
DockerErrors == {"APIError"}
NoExc == "no exception"

-----------------------------------------------------------------------------
(* The output document /sandbox/output.json as the worker finds it.        *)

\* Strings of the model in which "status" occurs as a substring.
StringsWithStatus == {"status", "exit status 1"}

OutputKeys == {"status", "output", "error", "traceback"}

FieldValues(k) ==
    CASE k = "status" -> {Str("success"), Str("error"), Str("bogus")}
      [] k = "output" -> {Str("pong"), None}
      [] k = "error" -> {Str("boom")}
      [] OTHER -> {Str("tb")}

AllFieldValues == UNION {FieldValues(k) : k \in OutputKeys}

\* JSON objects over the keys of the result protocol, any combination of fields.
JsonObjects ==
    UNION {{Dict(f) : f \in {g \in [K -> AllFieldValues] : \A k \in K : g[k] \in FieldValues(k)}}
           : K \in SUBSET OutputKeys}

\* JSON documents that are not objects.
JsonNonObjects ==
    {None, Num(42), Str("pong"), Str("exit status 1"),
     List(<<>>), List(<<Str("status")>>)}

JsonValues == JsonObjects \cup JsonNonObjects

\* The file: missing, not readable, not JSON, or a JSON value.
FileErrors == {"FileNotFoundError", "PermissionError", "JSONDecodeError"}
BadFile(e) == [state |-> e, value |-> None]
JsonFile(v) == [state |-> "json", value |-> v]
Absent == BadFile("FileNotFoundError")
OutputDocuments == {BadFile(e) : e \in FileErrors} \cup {JsonFile(v) : v \in JsonValues}

-----------------------------------------------------------------------------
VARIABLES
    nextId,                 \* temp dirs created so far; the next sandbox is nextId + 1
    sandboxes,              \* self.sandboxes: the ids that are keys of the registry
    sandbox,                \* the registry's dict objects: [network_mode, container]
    temp_dirs,              \* the workspaces that exist on the host
    docker,                 \* the engine's containers, by name: [state, networks]
    pc,                     \* position of create_sandbox / the worker thread, per sandbox
    result,                 \* the worker's local result dict
    call,                   \* the on_finish invocation in progress, per sandbox
    calls,                  \* how many times on_finish was invoked, per sandbox
    events,                 \* per sandbox: the order of mount, launch, finish, cleanup
    log_docker_to_stdout,   \* self.log_docker_to_stdout
    cleaners,               \* the cleanup_sandbox / cleanup_all call in progress, per thread
    manager,                \* position of the SandboxManager object in its lifetime
    managers,               \* how many SandboxManager objects were constructed so far
    networks,               \* the engine's networks named SANDBOX_NETWORK_NAME
    proxy,                  \* the container sandbox_proxy, its workspace, and self.proxy_*
    http,                   \* the request the proxy server is handling, and its upstream calls
    peer,                   \* position of a SandboxManager.__init__ running at the same time
    guest                   \* what the guest of each sandbox writes to stdout and stderr

\* the variables no sandbox operation of a worker or of create_sandbox touches
lifecycle == <<manager, managers, networks, proxy, http, peer, guest>>
others == <<cleaners, manager, managers, networks, proxy, http, peer, guest>>

vars == <<nextId, sandboxes, sandbox, temp_dirs, docker, pc, result, call, calls,
          events, log_docker_to_stdout, cleaners, manager, managers, networks, proxy,
          http, peer, guest>>

NoContainer == [state |-> "absent", networks |-> {}]
NoSandbox == [network_mode |-> "sandbox", container |-> FALSE]
NoResult == [status |-> "none"]
\* no output.json was looked for
NotRead == [state |-> "not read", value |-> None]
NoCall == [thread |-> "none", result |-> NoResult, e |-> NoExc, doc |-> NotRead]

\* a thread that is in no cleanup call
Idle == [pc |-> "idle", op |-> "none", id |-> 0, container |-> FALSE, todo |-> <<>>]

\* result = {"status": "success", "output": None, "logs": "", "error": None, "traceback": None}
InitialResult ==
    [status |-> "success", output |-> None, logs |-> Str(""), error |-> None,
     traceback |-> None]

\* networks.create(SANDBOX_NETWORK_NAME, driver="bridge", internal=True)
IsolatedNetwork == [driver |-> "bridge", internal |-> TRUE]

\* No proxy: no container named sandbox_proxy, no workspace, the attributes unset
NoProxy ==
    [state |-> "absent", networks |-> {}, workspace |-> FALSE,
     proxy_container |-> FALSE, proxy_temp_dir |-> FALSE, sandbox_proxy_temp_dir |-> FALSE]

\* The proxy as _create_sandbox_proxy leaves it when the bridge connect succeeded
RunningProxy ==
    [state |-> "running", networks |-> {SANDBOX_NETWORK_NAME, BRIDGE_NETWORK_NAME},
     workspace |-> TRUE,
     proxy_container |-> TRUE, proxy_temp_dir |-> FALSE, sandbox_proxy_temp_dir |-> TRUE]

\* The proxy server handles no request and has called the upstream for none
NoRequest == [method |-> "none", path |-> "none", body |-> "none"]
NoOutcome == [kind |-> "none"]
NoResponse == [status_code |-> 0, content |-> None, content_type |-> None]
NoTraffic ==
    [pc |-> "idle", request |-> NoRequest, path |-> "none", body |-> "none",
     outcome |-> NoOutcome, response |-> NoResponse, upstream |-> <<>>, served |-> 0]

\* The bytes a guest writes to a stream: text in UTF-8, or bytes that are not
Encodings == {"utf-8", "binary"}
GuestOutputs == [stdout : Encodings, stderr : Encodings]
Text == [stdout |-> "utf-8", stderr |-> "utf-8"]

\* No sandbox was created yet
NoSandboxes ==
    /\ nextId = 0
    /\ sandboxes = {}
    /\ sandbox = [i \in Ids |-> NoSandbox]
    /\ temp_dirs = {}
    /\ docker = [i \in Ids |-> NoContainer]
    /\ pc = [i \in Ids |-> "none"]
    /\ result = [i \in Ids |-> NoResult]
    /\ call = [i \in Ids |-> NoCall]
    /\ calls = [i \in Ids |-> 0]
    /\ events = [i \in Ids |-> <<>>]
    /\ cleaners = [t \in Threads |-> Idle]

\* The state after SandboxManager(log_docker_to_stdout=...) has returned
Init ==
    /\ NoSandboxes
    /\ log_docker_to_stdout \in BOOLEAN
    /\ manager = "ready"
    /\ managers = 1
    /\ networks = <<IsolatedNetwork>>
    /\ proxy = RunningProxy
    /\ http = NoTraffic
    /\ peer = "none"
    /\ guest = [i \in Ids |-> Text]

\* The state before any SandboxManager is constructed: the isolated network is
\* not there yet, or an earlier run has left it
Boot ==
    /\ NoSandboxes
    /\ log_docker_to_stdout = FALSE
    /\ manager = "none"
    /\ managers = 0
    /\ networks \in {<<>>, <<IsolatedNetwork>>}
    /\ proxy = NoProxy
    /\ http = NoTraffic
    /\ peer = "none"
    /\ guest = [i \in Ids |-> Text]

-----------------------------------------------------------------------------
(* Helpers                                                                 *)

\* The variant that gives the name of a deleted directory out again
create_temp_dir_Reuse ==
    IF \E d \in 1..nextId : d \notin temp_dirs
    THEN CHOOSE d \in 1..nextId : d \notin temp_dirs
    ELSE nextId + 1

\* utils.temp.create_temp_dir(): a new directory under a name that was never
\* given out before
create_temp_dir == nextId + 1

\* utils.temp.cleanup_temp_dir(temp_dir): the directory is gone afterwards; a
\* directory that is already gone is not an error
cleanup_temp_dir(id) == temp_dirs \ {id}

get_num_sandboxes == Cardinality(sandboxes)

\* finish_with_error(error_msg, result): the dict handed to on_finish
finish_with_error(error_msg, r) == [r EXCEPT !.status = "error", !.error = error_msg]

\* sandbox["on_finish"](result), on thread t; e is the exception being handled (if
\* any) and doc the output.json that was found (if one was looked for)
InvokeOnFinish(id, t, r, e, doc) ==
    /\ call' = [call EXCEPT ![id] = [thread |-> t, result |-> r, e |-> e, doc |-> doc]]
    /\ calls' = [calls EXCEPT ![id] = @ + 1]
    /\ pc' = [pc EXCEPT ![id] = "on_finish"]

\* The variant that gives no network argument in the default mode
get_network_config_Bridged(network_mode) ==
    CASE network_mode = "sandbox" -> [raises |-> NoExc, networks |-> {BRIDGE_NETWORK_NAME}]
      [] network_mode = "public" -> [raises |-> NoExc, networks |-> {BRIDGE_NETWORK_NAME}]
      [] network_mode = "both" -> [raises |-> NoExc, networks |-> {SANDBOX_NETWORK_NAME}]
      [] OTHER -> [raises |-> "ValueError", networks |-> {}]

\* _get_network_config(network_mode): the network argument of containers.run;
\* no argument attaches the container to the engine's default bridge.
get_network_config(network_mode) ==
    CASE network_mode = "sandbox" -> [raises |-> NoExc, networks |-> {SANDBOX_NETWORK_NAME}]
      [] network_mode = "public" -> [raises |-> NoExc, networks |-> {BRIDGE_NETWORK_NAME}]
      [] network_mode = "both" -> [raises |-> NoExc, networks |-> {SANDBOX_NETWORK_NAME}]
      [] OTHER -> [raises |-> "ValueError", networks |-> {}]

-----------------------------------------------------------------------------
(* create_sandbox                                                          *)

\* The variant that registers the sandbox before it calls on_mount
create_sandbox_RegisterFirst(mount_ok, io_ok, network_mode) ==
    /\ LET id == create_temp_dir IN
       /\ nextId' = id
       /\ temp_dirs' = temp_dirs \cup {id}
       /\ IF ~mount_ok
          THEN \* on_mount raised: on_finish here, on the caller's stack, then return
               /\ InvokeOnFinish(id, "caller",
                      [status |-> "error",
                       error |-> FStr("on_mount() callback failed: ", Exc("MountError")),
                       traceback |-> format_exc("MountError")],
                      "MountError", NotRead)
               /\ events' = [events EXCEPT ![id] = Append(@, "finish")]
               /\ sandboxes' = sandboxes \cup {id}
               /\ sandbox' = [sandbox EXCEPT ![id] =
                                 [network_mode |-> network_mode, container |-> FALSE]]
          ELSE IF ~io_ok
          THEN \* shutil.copy2 or open/json.dump raised: the exception leaves create_sandbox
               /\ pc' = [pc EXCEPT ![id] = "raised"]
               /\ events' = [events EXCEPT ![id] = Append(@, "mount")]
               /\ UNCHANGED <<sandboxes, sandbox, call, calls>>
          ELSE \* registered, worker thread started, sandbox_id returned
               /\ sandboxes' = sandboxes \cup {id}
               /\ sandbox' = [sandbox EXCEPT ![id] =
                                 [network_mode |-> network_mode, container |-> FALSE]]
               /\ pc' = [pc EXCEPT ![id] = "fetch"]
               /\ events' = [events EXCEPT ![id] = Append(@, "mount")]
               /\ UNCHANGED <<call, calls>>
    /\ UNCHANGED <<docker, result, log_docker_to_stdout, others>>

\* The variant that reports a workspace I/O failure through on_finish
create_sandbox_ReportIOError(mount_ok, io_ok, network_mode) ==
    /\ LET id == create_temp_dir IN
       /\ nextId' = id
       /\ temp_dirs' = temp_dirs \cup {id}
       /\ IF ~mount_ok
          THEN \* on_mount raised: on_finish here, on the caller's stack, then return
               /\ InvokeOnFinish(id, "caller",
                      [status |-> "error",
                       error |-> FStr("on_mount() callback failed: ", Exc("MountError")),
                       traceback |-> format_exc("MountError")],
                      "MountError", NotRead)
               /\ events' = [events EXCEPT ![id] = Append(@, "finish")]
               /\ UNCHANGED <<sandboxes, sandbox>>
          ELSE IF ~io_ok
          THEN /\ InvokeOnFinish(id, "caller",
                      [status |-> "error",
                       error |-> FStr("failed to prepare workspace: ", Exc("OSError")),
                       traceback |-> format_exc("OSError")],
                      "OSError", NotRead)
               /\ events' = [events EXCEPT ![id] = <<"mount", "finish">>]
               /\ UNCHANGED <<sandboxes, sandbox>>
          ELSE \* registered, worker thread started, sandbox_id returned
               /\ sandboxes' = sandboxes \cup {id}
               /\ sandbox' = [sandbox EXCEPT ![id] =
                                 [network_mode |-> network_mode, container |-> FALSE]]
               /\ pc' = [pc EXCEPT ![id] = "fetch"]
               /\ events' = [events EXCEPT ![id] = Append(@, "mount")]
               /\ UNCHANGED <<call, calls>>
    /\ UNCHANGED <<docker, result, log_docker_to_stdout, others>>

\* Lines 137-177
create_sandbox(mount_ok, io_ok, network_mode) ==
    /\ LET id == create_temp_dir IN
       /\ nextId' = id
       /\ temp_dirs' = temp_dirs \cup {id}
       /\ IF ~mount_ok
          THEN \* on_mount raised: on_finish here, on the caller's stack, then return
               /\ InvokeOnFinish(id, "caller",
                      [status |-> "error",
                       error |-> FStr("on_mount() callback failed: ", Exc("MountError")),
                       traceback |-> format_exc("MountError")],
                      "MountError", NotRead)
               /\ events' = [events EXCEPT ![id] = Append(@, "finish")]
               /\ UNCHANGED <<sandboxes, sandbox>>
          ELSE IF ~io_ok
          THEN \* shutil.copy2 or open/json.dump raised: the exception leaves create_sandbox
               /\ pc' = [pc EXCEPT ![id] = "raised"]
               /\ events' = [events EXCEPT ![id] = Append(@, "mount")]
               /\ UNCHANGED <<sandboxes, sandbox, call, calls>>
          ELSE \* registered, worker thread started, sandbox_id returned
               /\ sandboxes' = sandboxes \cup {id}
               /\ sandbox' = [sandbox EXCEPT ![id] =
                                 [network_mode |-> network_mode, container |-> FALSE]]
               /\ pc' = [pc EXCEPT ![id] = "fetch"]
               /\ events' = [events EXCEPT ![id] = Append(@, "mount")]
               /\ UNCHANGED <<call, calls>>
    /\ UNCHANGED <<docker, result, log_docker_to_stdout, others>>

\* The variant in which the end of the run cleans the sandbox up
on_finish_return_AutoCleanup(id) ==
    /\ pc[id] = "on_finish"
    /\ cleaners[id] = Idle
    /\ pc' = [pc EXCEPT ![id] = IF call[id].thread = "caller" THEN "rejected" ELSE "done"]
    /\ call' = [call EXCEPT ![id] = NoCall]
    /\ result' = [result EXCEPT ![id] = NoResult]
    /\ temp_dirs' = cleanup_temp_dir(id)
    /\ sandboxes' = sandboxes \ {id}
    /\ UNCHANGED <<nextId, sandbox, docker, calls, events, log_docker_to_stdout, others>>

\* on_finish returns to whoever invoked it
on_finish_return(id) ==
    /\ pc[id] = "on_finish"
    /\ cleaners[id] = Idle
    /\ pc' = [pc EXCEPT ![id] = IF call[id].thread = "caller" THEN "rejected" ELSE "done"]
    /\ call' = [call EXCEPT ![id] = NoCall]
    /\ result' = [result EXCEPT ![id] = NoResult]
    /\ UNCHANGED <<nextId, sandboxes, sandbox, temp_dirs, docker, calls, events,
                   log_docker_to_stdout, others>>

-----------------------------------------------------------------------------
(* Validation of output.json (the tail of _run_sandbox)                    *)

\* key in output: TypeError unless output is a container
Iterable(output) == output.kind \in {"dict", "list", "str"}

Contains(key, output) ==
    CASE output.kind = "dict" -> key \in DOMAIN output.val
      [] output.kind = "list" -> \E n \in DOMAIN output.val : output.val[n] = Str(key)
      [] output.kind = "str" -> output.val \in StringsWithStatus
      [] OTHER -> FALSE

\* output[key] with a str key: only a dict can be indexed that way
Subscriptable(output) == output.kind = "dict"

\* output.get("traceback")
DictGet(output, key) == IF key \in DOMAIN output.val THEN output.val[key] ELSE None

MSG_NO_STATUS == Str("output.json does not contain a status field")
MSG_NO_OUTPUT == Str("output.json has status 'success' but does not contain an output field")
MSG_NO_ERROR == Str("output.json has status 'error' but does not contain an error field")
MSG_INVALID_STATUS(v) == FStr("output.json contains an invalid status field: ", v)
MSG_READ_FAILED(e) == FStr("Failed to read output.json: ", Exc(e))
MSG_RUN_FAILED(e) == FStr("failed to run: ", Exc(e))

\* Lines 276-279: status "success". raises = an exception nobody catches;
\* otherwise result is what on_finish receives.
ValidateSuccess_Lenient(output, r) ==
    [raises |-> NoExc, result |-> [r EXCEPT !.output = DictGet(output, "output")]]

ValidateSuccess(output, r) ==
    IF ~Contains("output", output)
    THEN [raises |-> NoExc, result |-> finish_with_error(MSG_NO_OUTPUT, r)]
    ELSE [raises |-> NoExc, result |-> [r EXCEPT !.output = output.val["output"]]]

\* Lines 281-287: status "error"
ValidateError_NoTraceback(output, r) ==
    IF ~Contains("error", output)
    THEN [raises |-> NoExc, result |-> finish_with_error(MSG_NO_ERROR, r)]
    ELSE [raises |-> NoExc, result |-> finish_with_error(output.val["error"], r)]

ValidateError(output, r) ==
    IF ~Contains("error", output)
    THEN [raises |-> NoExc, result |-> finish_with_error(MSG_NO_ERROR, r)]
    ELSE [raises |-> NoExc,
          result |-> finish_with_error(output.val["error"],
                         [r EXCEPT !.traceback = DictGet(output, "traceback")])]

\* Lines 270-292: what the worker does with the parsed document and its result dict
ValidateOutput_ElseError(output, r) ==
    IF ~Iterable(output)
    THEN [raises |-> "TypeError", result |-> r]
    ELSE IF ~Contains("status", output)
    THEN [raises |-> NoExc, result |-> finish_with_error(MSG_NO_STATUS, r)]
    ELSE IF ~Subscriptable(output)
    THEN [raises |-> "TypeError", result |-> r]
    ELSE IF output.val["status"] = Str("success")
    THEN ValidateSuccess(output, r)
    ELSE ValidateError(output, r)

ValidateOutput(output, r) ==
    IF ~Iterable(output)
    THEN [raises |-> "TypeError", result |-> r]
    ELSE IF ~Contains("status", output)
    THEN [raises |-> NoExc, result |-> finish_with_error(MSG_NO_STATUS, r)]
    ELSE IF ~Subscriptable(output)
    THEN [raises |-> "TypeError", result |-> r]
    ELSE IF output.val["status"] = Str("success")
    THEN ValidateSuccess(output, r)
    ELSE IF output.val["status"] = Str("error")
    THEN ValidateError(output, r)
    ELSE [raises |-> NoExc,
          result |-> finish_with_error(MSG_INVALID_STATUS(output.val["status"]), r)]

\* Lines 258-266: open + json.load
ReadOutput(doc, r) ==
    IF doc.state = "json"
    THEN [raises |-> NoExc, output |-> doc.value, result |-> r]
    ELSE [raises |-> doc.state, output |-> None,
          result |-> finish_with_error(MSG_READ_FAILED(doc.state), r)]

-----------------------------------------------------------------------------
(* _run_sandbox, the worker thread of one sandbox, one engine call per step *)

\* Lines 190-206: look the sandbox up; a sandbox that is gone ends the thread silently
run_sandbox_fetch(id) ==
    /\ pc[id] = "fetch"
    /\ IF id \in sandboxes
       THEN /\ pc' = [pc EXCEPT ![id] = "launch"]
            /\ result' = [result EXCEPT ![id] = InitialResult]
       ELSE /\ pc' = [pc EXCEPT ![id] = "returned"]
            /\ UNCHANGED result
    /\ UNCHANGED <<nextId, sandboxes, sandbox, temp_dirs, docker, call, calls, events,
                   log_docker_to_stdout, others>>

\* The variant that reports the failure in a fresh dict
run_failed_FreshResult(id, e) ==
    LET r == finish_with_error(MSG_RUN_FAILED(e),
                 [InitialResult EXCEPT !.traceback = format_exc(e)])
    IN /\ InvokeOnFinish(id, "worker", r, e, NotRead)
       /\ result' = [result EXCEPT ![id] = r]
       /\ events' = [events EXCEPT ![id] = Append(@, "finish")]

\* The variant that writes the failure into the result of every worker
run_failed_SharedResult(id, e) ==
    LET r == finish_with_error(MSG_RUN_FAILED(e),
                 [result[id] EXCEPT !.traceback = format_exc(e)])
    IN /\ InvokeOnFinish(id, "worker", r, e, NotRead)
       /\ result' = [j \in Ids |-> IF result[j] = NoResult /\ j # id THEN NoResult ELSE r]
       /\ events' = [events EXCEPT ![id] = Append(@, "finish")]

\* Lines 250-254: except Exception as e
run_failed(id, e) ==
    LET r == finish_with_error(MSG_RUN_FAILED(e),
                 [result[id] EXCEPT !.traceback = format_exc(e)])
    IN /\ InvokeOnFinish(id, "worker", r, e, NotRead)
       /\ result' = [result EXCEPT ![id] = r]
       /\ events' = [events EXCEPT ![id] = Append(@, "finish")]

\* The variant that connects the container to the bridge in every mode
run_sandbox_launch_ConnectAlways(id, e) ==
    /\ pc[id] = "launch"
    /\ LET cfg == get_network_config(sandbox[id].network_mode) IN
       IF cfg.raises # NoExc
       THEN /\ run_failed(id, cfg.raises)
            /\ UNCHANGED <<docker, sandbox>>
       ELSE IF e # NoExc
       THEN /\ run_failed(id, e)
            /\ UNCHANGED <<docker, sandbox>>
       ELSE /\ docker' = [docker EXCEPT ![id] =
                             [state |-> "running", networks |-> cfg.networks]]
            /\ sandbox' = [sandbox EXCEPT ![id].container = TRUE]
            /\ pc' = [pc EXCEPT ![id] = "connect"]
            /\ events' = [events EXCEPT ![id] = Append(@, "launch")]
            /\ UNCHANGED <<result, call, calls>>
    /\ UNCHANGED <<nextId, sandboxes, temp_dirs, log_docker_to_stdout, others>>

\* Lines 211-223: network configuration, then docker.containers.run(detach=True)
run_sandbox_launch(id, e) ==
    /\ pc[id] = "launch"
    /\ LET cfg == get_network_config(sandbox[id].network_mode) IN
       IF cfg.raises # NoExc
       THEN /\ run_failed(id, cfg.raises)
            /\ UNCHANGED <<docker, sandbox>>
       ELSE IF e # NoExc
       THEN /\ run_failed(id, e)
            /\ UNCHANGED <<docker, sandbox>>
       ELSE /\ docker' = [docker EXCEPT ![id] =
                             [state |-> "running", networks |-> cfg.networks]]
            /\ sandbox' = [sandbox EXCEPT ![id].container = TRUE]
            /\ pc' = [pc EXCEPT ![id] =
                         IF sandbox[id].network_mode = "both" THEN "connect" ELSE "wait"]
            /\ events' = [events EXCEPT ![id] = Append(@, "launch")]
            /\ UNCHANGED <<result, call, calls>>
    /\ UNCHANGED <<nextId, sandboxes, temp_dirs, log_docker_to_stdout, others>>

\* The variant in which a failure to connect to the bridge fails the run
run_sandbox_connect_FailureFails(id, e) ==
    /\ pc[id] = "connect"
    /\ IF e = NoExc
       THEN /\ docker' = IF docker[id].state # "absent"
                         THEN [docker EXCEPT ![id].networks = @ \cup {BRIDGE_NETWORK_NAME}]
                         ELSE docker
            /\ pc' = [pc EXCEPT ![id] = "wait"]
            /\ UNCHANGED <<result, call, calls, events>>
       ELSE /\ run_failed(id, e)
            /\ UNCHANGED docker
    /\ UNCHANGED <<nextId, sandboxes, sandbox, temp_dirs, log_docker_to_stdout, others>>

\* Lines 225-232: BOTH mode, connect to the bridge; a failure is only a warning
run_sandbox_connect(id, e) ==
    /\ pc[id] = "connect"
    /\ docker' = IF e = NoExc /\ docker[id].state # "absent"
                 THEN [docker EXCEPT ![id].networks = @ \cup {BRIDGE_NETWORK_NAME}]
                 ELSE docker
    /\ pc' = [pc EXCEPT ![id] = "wait"]
    /\ UNCHANGED <<nextId, sandboxes, sandbox, temp_dirs, result, call, calls, events,
                   log_docker_to_stdout, others>>

\* The guest process ends: the container exits
container_exit(id) ==
    /\ docker[id].state = "running"
    /\ docker' = [docker EXCEPT ![id].state = "exited"]
    /\ UNCHANGED <<nextId, sandboxes, sandbox, temp_dirs, pc, result, call, calls, events,
                   log_docker_to_stdout, others>>

\* What the blocking engine call of the wait step does: it returns once the
\* container has exited, raises NotFound when the container is gone, or raises e.
WaitOutcome(id, e) ==
    IF e # NoExc THEN e
    ELSE IF docker[id].state = "absent" THEN "NotFound"
    ELSE IF docker[id].state = "exited" THEN NoExc
    ELSE "blocked"

\* Line 238: sandbox["container"].wait()
run_sandbox_wait(id, e) ==
    /\ pc[id] = "wait"
    /\ ~log_docker_to_stdout
    /\ WaitOutcome(id, e) # "blocked"
    /\ IF WaitOutcome(id, e) = NoExc
       THEN /\ pc' = [pc EXCEPT ![id] = "logs"]
            /\ UNCHANGED <<result, call, calls, events>>
       ELSE run_failed(id, WaitOutcome(id, e))
    /\ UNCHANGED <<nextId, sandboxes, sandbox, temp_dirs, docker, log_docker_to_stdout, others>>

\* Lines 235-236: for log_line in sandbox["container"].logs(stream=True, follow=True)
run_sandbox_stream(id, e) ==
    /\ pc[id] = "wait"
    /\ log_docker_to_stdout
    /\ WaitOutcome(id, e) # "blocked"
    /\ IF WaitOutcome(id, e) = NoExc
       THEN /\ pc' = [pc EXCEPT ![id] = "logs"]
            /\ UNCHANGED <<result, call, calls, events>>
       ELSE run_failed(id, WaitOutcome(id, e))
    /\ UNCHANGED <<nextId, sandboxes, sandbox, temp_dirs, docker, log_docker_to_stdout, others>>

\* The variant that fetches the logs and does not store them in the result
run_sandbox_logs_NotStored(id, e) ==
    /\ pc[id] = "logs"
    /\ IF e # NoExc
       THEN run_failed(id, e)
       ELSE IF docker[id].state = "absent"
       THEN run_failed(id, "NotFound")
       ELSE /\ pc' = [pc EXCEPT ![id] = "remove"]
            /\ UNCHANGED <<result, call, calls, events>>
    /\ UNCHANGED <<nextId, sandboxes, sandbox, temp_dirs, docker, log_docker_to_stdout, others>>

\* Lines 242-243: logs = sandbox["container"].logs(stderr=False); result["logs"] = logs
run_sandbox_logs(id, e) ==
    /\ pc[id] = "logs"
    /\ IF e # NoExc
       THEN run_failed(id, e)
       ELSE IF docker[id].state = "absent"
       THEN run_failed(id, "NotFound")
       ELSE /\ result' = [result EXCEPT ![id].logs = ContainerLogs(id)]
            /\ pc' = [pc EXCEPT ![id] = "remove"]
            /\ UNCHANGED <<call, calls, events>>
    /\ UNCHANGED <<nextId, sandboxes, sandbox, temp_dirs, docker, log_docker_to_stdout, others>>

\* The variant that removes the container and keeps the handle
run_sandbox_remove_KeepsHandle(id, e) ==
    /\ pc[id] = "remove"
    /\ IF e # NoExc
       THEN /\ run_failed(id, e)
            /\ UNCHANGED <<docker, sandbox>>
       ELSE IF docker[id].state = "absent"
       THEN /\ run_failed(id, "NotFound")
            /\ UNCHANGED <<docker, sandbox>>
       ELSE /\ docker' = [docker EXCEPT ![id] = NoContainer]
            /\ pc' = [pc EXCEPT ![id] = "read"]
            /\ UNCHANGED <<result, call, calls, events, sandbox>>
    /\ UNCHANGED <<nextId, sandboxes, temp_dirs, log_docker_to_stdout, others>>

\* Lines 247-248: sandbox["container"].remove(); sandbox["container"] = None
run_sandbox_remove(id, e) ==
    /\ pc[id] = "remove"
    /\ IF e # NoExc
       THEN /\ run_failed(id, e)
            /\ UNCHANGED <<docker, sandbox>>
       ELSE IF docker[id].state = "absent"
       THEN /\ run_failed(id, "NotFound")
            /\ UNCHANGED <<docker, sandbox>>
       ELSE /\ docker' = [docker EXCEPT ![id] = NoContainer]
            /\ sandbox' = [sandbox EXCEPT ![id].container = FALSE]
            /\ pc' = [pc EXCEPT ![id] = "read"]
            /\ UNCHANGED <<result, call, calls, events>>
    /\ UNCHANGED <<nextId, sandboxes, temp_dirs, log_docker_to_stdout, others>>

\* Lines 258-292: read output.json, validate it, hand the result to on_finish.
\* doc is what the guest left in the workspace; a deleted workspace holds nothing.
run_sandbox_read(id, doc) ==
    /\ pc[id] = "read"
    /\ id \notin temp_dirs => doc = Absent
    /\ LET rd == ReadOutput(doc, result[id])
           v == ValidateOutput(rd.output, result[id])
       IN IF rd.raises # NoExc
          THEN /\ InvokeOnFinish(id, "worker", rd.result, rd.raises, doc)
               /\ result' = [result EXCEPT ![id] = rd.result]
               /\ events' = [events EXCEPT ![id] = Append(@, "finish")]
          ELSE IF v.raises # NoExc
          THEN \* the exception ends the thread
               /\ pc' = [pc EXCEPT ![id] = "crashed"]
               /\ result' = [result EXCEPT ![id] = NoResult]
               /\ UNCHANGED <<call, calls, events>>
          ELSE /\ InvokeOnFinish(id, "worker", v.result, NoExc, doc)
               /\ result' = [result EXCEPT ![id] = v.result]
               /\ events' = [events EXCEPT ![id] = Append(@, "finish")]
    /\ UNCHANGED <<nextId, sandboxes, sandbox, temp_dirs, docker, log_docker_to_stdout, others>>

\* Lines 235-236: log_line.decode('utf-8') of every line the container writes,
\* to stdout or to stderr; bytes that are not UTF-8 raise
StreamDecode(g) ==
    IF g.stdout = "utf-8" /\ g.stderr = "utf-8" THEN NoExc ELSE "UnicodeDecodeError"

\* Line 242: container.logs(stderr=False).decode("utf-8"), of stdout alone
LogsDecode(g) == IF g.stdout = "utf-8" THEN NoExc ELSE "UnicodeDecodeError"

-----------------------------------------------------------------------------
(* cleanup_sandbox                                                         *)

\* Lines 318-324: container.stop(); container.remove(), any exception swallowed.
\* failure names the call that raised.
StopAndRemove(c, failure) ==
    IF c.state = "absent" \/ failure = "stop" THEN c
    ELSE IF failure = "remove" THEN [c EXCEPT !.state = "exited"]
    ELSE NoContainer

\* The variant that leaves the registry entry in place
cleanup_sandbox_KeepsEntry(id, failure) ==
    /\ IF id \notin sandboxes
       THEN UNCHANGED <<temp_dirs, docker, events>>
       ELSE /\ docker' = IF sandbox[id].container
                         THEN [docker EXCEPT ![id] = StopAndRemove(@, failure)]
                         ELSE docker
            /\ temp_dirs' = cleanup_temp_dir(id)
            /\ events' = [events EXCEPT ![id] = Append(@, "cleanup")]
    /\ UNCHANGED <<nextId, sandboxes, sandbox, pc, result, call, calls, log_docker_to_stdout, others>>

\* The variant in which a failure to stop or remove the container leaves the call
cleanup_sandbox_FailurePropagates(id, failure) ==
    /\ IF id \notin sandboxes
       THEN UNCHANGED <<sandboxes, temp_dirs, docker, events>>
       ELSE /\ docker' = IF sandbox[id].container
                         THEN [docker EXCEPT ![id] = StopAndRemove(@, failure)]
                         ELSE docker
            /\ IF sandbox[id].container /\ failure # "none"
               THEN UNCHANGED <<sandboxes, temp_dirs, events>>
               ELSE /\ temp_dirs' = cleanup_temp_dir(id)
                    /\ sandboxes' = sandboxes \ {id}
                    /\ events' = [events EXCEPT ![id] = Append(@, "cleanup")]
    /\ UNCHANGED <<nextId, sandbox, pc, result, call, calls, log_docker_to_stdout, others>>

\* The variant without the lookup: the workspace goes whether registered or not
cleanup_sandbox_NoLookup(id, failure) ==
    /\ docker' = IF id \in sandboxes /\ sandbox[id].container
                 THEN [docker EXCEPT ![id] = StopAndRemove(@, failure)]
                 ELSE docker
    /\ temp_dirs' = cleanup_temp_dir(id)
    /\ sandboxes' = sandboxes \ {id}
    /\ events' = IF id \in sandboxes
                 THEN [events EXCEPT ![id] = Append(@, "cleanup")]
                 ELSE events
    /\ UNCHANGED <<nextId, sandbox, pc, result, call, calls, log_docker_to_stdout, others>>

\* Lines 306-330: a whole cleanup_sandbox call that no other cleanup interleaves with
cleanup_sandbox(id, failure) ==
    /\ IF id \notin sandboxes
       THEN UNCHANGED <<sandboxes, temp_dirs, docker, events>>
       ELSE /\ docker' = IF sandbox[id].container
                         THEN [docker EXCEPT ![id] = StopAndRemove(@, failure)]
                         ELSE docker
            /\ temp_dirs' = cleanup_temp_dir(id)
            /\ sandboxes' = sandboxes \ {id}
            /\ events' = [events EXCEPT ![id] = Append(@, "cleanup")]
    /\ UNCHANGED <<nextId, sandbox, pc, result, call, calls, log_docker_to_stdout, others>>

-----------------------------------------------------------------------------
(* cleanup_sandbox and cleanup_all as the calls of concurrent threads: a   *)
(* thread can be preempted between the registry lookup and the rest.       *)

\* list(self.sandboxes.keys()): the registered ids, in insertion order
RECURSIVE Keys(_)
Keys(S) ==
    IF S = {} THEN <<>>
    ELSE LET k == CHOOSE m \in S : \A n \in S : m <= n IN <<k>> \o Keys(S \ {k})

\* thread t is in the on_finish callback of its own sandbox, or is the driver
\* outside cleanup_all
MayCallCleanup(t, id) ==
    /\ cleaners[t] = Idle
    /\ IF t = Main THEN TRUE
       ELSE t = id /\ pc[t] = "on_finish" /\ call[t].thread = "worker"

\* cleanup_sandbox returns: to its caller, or to the loop of cleanup_all with the
\* ids that are left
Return(op, todo) ==
    IF todo = <<>> THEN Idle ELSE [Idle EXCEPT !.op = op, !.todo = todo]

\* Lines 309-316: sandbox_info = self.sandboxes.get(sandbox_id); unknown: return
Lookup(t, id, op, todo) ==
    cleaners' = [cleaners EXCEPT ![t] =
                    IF id \in sandboxes
                    THEN [pc |-> "del", op |-> op, id |-> id,
                          container |-> sandbox[id].container, todo |-> todo]
                    ELSE Return(op, todo)]

\* cleanup_sandbox(sandbox_id) is called by thread t and does its lookup
cleanup_sandbox_get(t, id) ==
    /\ MayCallCleanup(t, id)
    /\ Lookup(t, id, "cleanup_sandbox", <<>>)
    /\ UNCHANGED <<nextId, sandboxes, sandbox, temp_dirs, docker, pc, result, call, calls,
                   events, log_docker_to_stdout, lifecycle>>

\* The variant whose del empties the registry
cleanup_sandbox_del_Clear(t, failure) ==
    /\ cleaners[t].pc = "del"
    /\ LET id == cleaners[t].id IN
       /\ docker' = IF cleaners[t].container
                    THEN [docker EXCEPT ![id] = StopAndRemove(@, failure)]
                    ELSE docker
       /\ temp_dirs' = cleanup_temp_dir(id)
       /\ sandboxes' = {}
       /\ events' = IF id \in sandboxes
                    THEN [events EXCEPT ![id] = Append(@, "cleanup")]
                    ELSE events
       /\ cleaners' = [cleaners EXCEPT ![t] = Return(cleaners[t].op, cleaners[t].todo)]
       /\ UNCHANGED <<pc, call, result>>
    /\ UNCHANGED <<nextId, sandbox, calls, log_docker_to_stdout, lifecycle>>

\* Lines 318-330: stop and remove the container, delete the workspace,
\* del self.sandboxes[sandbox_id]. The del raises KeyError when another thread
\* has deleted the entry since the lookup: the exception leaves cleanup_sandbox
\* and cleanup_all; in a callback it ends the worker thread.
cleanup_sandbox_del(t, failure) ==
    /\ cleaners[t].pc = "del"
    /\ LET id == cleaners[t].id IN
       /\ docker' = IF cleaners[t].container
                    THEN [docker EXCEPT ![id] = StopAndRemove(@, failure)]
                    ELSE docker
       /\ temp_dirs' = cleanup_temp_dir(id)
       /\ IF id \in sandboxes
          THEN /\ sandboxes' = sandboxes \ {id}
               /\ events' = [events EXCEPT ![id] = Append(@, "cleanup")]
               /\ cleaners' = [cleaners EXCEPT ![t] = Return(cleaners[t].op, cleaners[t].todo)]
               /\ UNCHANGED <<pc, call, result>>
          ELSE /\ UNCHANGED <<sandboxes, events>>
               /\ IF t = Main
                  THEN /\ cleaners' = [cleaners EXCEPT ![t] =
                                           [Idle EXCEPT !.pc = "raised", !.op = cleaners[t].op]]
                       /\ UNCHANGED <<pc, call, result>>
                  ELSE /\ cleaners' = [cleaners EXCEPT ![t] = Idle]
                       /\ pc' = [pc EXCEPT ![t] = "crashed"]
                       /\ call' = [call EXCEPT ![t] = NoCall]
                       /\ result' = [result EXCEPT ![t] = NoResult]
    /\ UNCHANGED <<nextId, sandbox, calls, log_docker_to_stdout, lifecycle>>

\* Line 334: cleanup_all() is called by the driver: the snapshot of the keys
cleanup_all ==
    /\ cleaners[Main] = Idle
    /\ cleaners' = [cleaners EXCEPT ![Main] = Return("cleanup_all", Keys(sandboxes))]
    /\ UNCHANGED <<nextId, sandboxes, sandbox, temp_dirs, docker, pc, result, call, calls,
                   events, log_docker_to_stdout, lifecycle>>

\* Line 335: the next cleanup_sandbox(sandbox_id) of the loop, up to its lookup
cleanup_all_next ==
    /\ cleaners[Main].pc = "idle"
    /\ cleaners[Main].todo # <<>>
    /\ Lookup(Main, Head(cleaners[Main].todo), "cleanup_all", Tail(cleaners[Main].todo))
    /\ UNCHANGED <<nextId, sandboxes, sandbox, temp_dirs, docker, pc, result, call, calls,
                   events, log_docker_to_stdout, lifecycle>>

-----------------------------------------------------------------------------
(* SandboxManager.__init__ and __del__: the isolated network and the proxy  *)

sandbox_vars == <<nextId, sandbox, temp_dirs, docker, pc, result, call, calls, events>>

\* No worker thread is alive
WorkersEnded ==
    \A id \in Ids : pc[id] \in {"none", "raised", "rejected", "done", "crashed", "returned"}

\* Lines 36-40: a SandboxManager is constructed, in a process with no worker of an
\* earlier one: docker.from_env(), _build_sandbox_image(), self.sandboxes = {}.
\* A failed build raises out of __init__.
SandboxManager_init(build_ok) ==
    /\ manager \in {"none", "dead", "failed"}
    /\ WorkersEnded
    /\ managers' = managers + 1
    /\ manager' = IF build_ok THEN "network" ELSE "failed"
    /\ sandboxes' = {}
    /\ proxy' = [proxy EXCEPT !.proxy_container = FALSE, !.proxy_temp_dir = FALSE,
                              !.sandbox_proxy_temp_dir = FALSE]
    /\ UNCHANGED <<sandbox_vars, log_docker_to_stdout, http, peer, guest, cleaners, networks>>

\* The variant that creates the network without looking
create_sandbox_network_get_NoLookup(e) ==
    /\ manager = "network"
    /\ manager' = IF e # NoExc THEN "failed" ELSE "network_create"
    /\ UNCHANGED <<sandboxes, sandbox_vars, log_docker_to_stdout, http, peer, guest, cleaners, managers,
                   networks, proxy>>

\* Lines 356-358, 370-371: self.docker.networks.get(SANDBOX_NETWORK_NAME). Found:
\* nothing to do; NotFound: go on to create it; any other exception is raised.
create_sandbox_network_get(e) ==
    /\ manager = "network"
    /\ manager' = IF e # NoExc THEN "failed"
                  ELSE IF networks # <<>> THEN "proxy"
                  ELSE "network_create"
    /\ UNCHANGED <<sandboxes, sandbox_vars, log_docker_to_stdout, http, peer, guest, cleaners, managers,
                   networks, proxy>>

\* Lines 359-369: networks.create(SANDBOX_NETWORK_NAME, driver="bridge", internal=True);
\* a failure is logged and raised
create_sandbox_network_create(e) ==
    /\ manager = "network_create"
    /\ IF e # NoExc
       THEN manager' = "failed" /\ UNCHANGED networks
       ELSE manager' = "proxy" /\ networks' = Append(networks, IsolatedNetwork)
    /\ UNCHANGED <<sandboxes, sandbox_vars, log_docker_to_stdout, http, peer, guest, cleaners, managers, proxy>>

\* A second SandboxManager() is constructed at the same time, in another thread or
\* process, and has come to its _create_sandbox_network()
peer_init ==
    /\ peer = "none"
    /\ peer' = "network"
    /\ UNCHANGED <<sandboxes, sandbox_vars, log_docker_to_stdout, http, guest, cleaners, manager,
                   managers, networks, proxy>>

\* Lines 356-358, 370-371, in the second SandboxManager
peer_create_sandbox_network_get(e) ==
    /\ peer = "network"
    /\ peer' = IF e # NoExc THEN "failed"
               ELSE IF networks # <<>> THEN "proxy"
               ELSE "network_create"
    /\ UNCHANGED <<sandboxes, sandbox_vars, log_docker_to_stdout, http, guest, cleaners, manager,
                   managers, networks, proxy>>

\* Lines 359-369, in the second SandboxManager
peer_create_sandbox_network_create(e) ==
    /\ peer = "network_create"
    /\ IF e # NoExc
       THEN peer' = "failed" /\ UNCHANGED networks
       ELSE peer' = "proxy" /\ networks' = Append(networks, IsolatedNetwork)
    /\ UNCHANGED <<sandboxes, sandbox_vars, log_docker_to_stdout, http, guest, cleaners, manager,
                   managers, proxy>>

\* Lines 45-46, 386-405: the proxy's workspace, then containers.run(name="sandbox_proxy",
\* network=SANDBOX_NETWORK_NAME); the engine refuses a name that is in use
create_sandbox_proxy_run(e) ==
    /\ manager = "proxy"
    /\ IF e # NoExc \/ proxy.state # "absent"
       THEN /\ manager' = "failed"
            /\ proxy' = [proxy EXCEPT !.workspace = TRUE, !.sandbox_proxy_temp_dir = TRUE]
       ELSE /\ manager' = "proxy_connect"
            /\ proxy' = [proxy EXCEPT !.workspace = TRUE, !.sandbox_proxy_temp_dir = TRUE,
                                      !.state = "running",
                                      !.networks = {SANDBOX_NETWORK_NAME},
                                      !.proxy_container = TRUE]
    /\ UNCHANGED <<sandboxes, sandbox_vars, log_docker_to_stdout, http, peer, guest, cleaners, managers, networks>>

\* Lines 407-414, 49: connect the proxy to the bridge, a failure is only a warning;
\* __init__ returns
create_sandbox_proxy_connect(e) ==
    /\ manager = "proxy_connect"
    /\ manager' = "ready"
    /\ proxy' = IF e = NoExc
                THEN [proxy EXCEPT !.networks = @ \cup {BRIDGE_NETWORK_NAME}]
                ELSE proxy
    /\ UNCHANGED <<sandboxes, sandbox_vars, log_docker_to_stdout, http, peer, guest, cleaners, managers, networks>>

\* Lines 70-72: the finalizer starts, once no thread refers to the manager any more:
\* self.cleanup_all()
SandboxManager_del ==
    /\ manager = "ready"
    /\ WorkersEnded
    /\ cleaners[Main] = Idle
    /\ manager' = "del"
    /\ cleaners' = [cleaners EXCEPT ![Main] = Return("cleanup_all", Keys(sandboxes))]
    /\ UNCHANGED <<sandboxes, sandbox_vars, log_docker_to_stdout, http, peer, guest, managers, networks, proxy>>

\* proxy_container.stop(); proxy_container.remove(), the exception swallowed
StopAndRemoveProxy(failure) ==
    IF proxy.state = "absent" \/ failure = "stop" THEN proxy
    ELSE IF failure = "remove" THEN [proxy EXCEPT !.state = "exited"]
    ELSE [proxy EXCEPT !.state = "absent", !.networks = {}]

\* The variant of the finalizer that leaves the proxy alone
del_proxy_Skip(failure) ==
    /\ manager = "del"
    /\ cleaners[Main] = Idle
    /\ manager' = "dead"
    /\ UNCHANGED <<sandboxes, sandbox_vars, log_docker_to_stdout, http, peer, guest, cleaners, managers,
                   networks, proxy>>

\* Lines 74-84: after cleanup_all, stop and remove the proxy container if
\* self.proxy_container, delete its workspace if self.proxy_temp_dir
del_proxy(failure) ==
    /\ manager = "del"
    /\ cleaners[Main] = Idle
    /\ manager' = "dead"
    /\ LET stopped == IF proxy.proxy_container THEN StopAndRemoveProxy(failure) ELSE proxy
       IN proxy' = IF proxy.proxy_temp_dir
                   THEN [stopped EXCEPT !.workspace = FALSE]
                   ELSE stopped
    /\ UNCHANGED <<sandboxes, sandbox_vars, log_docker_to_stdout, http, peer, guest, cleaners, managers, networks>>

-----------------------------------------------------------------------------
(* The proxy server (src/sandbox/SANDBOX_PROXY.py) in the container         *)
(* sandbox_proxy. Its handlers are coroutines that call the blocking        *)
(* requests.post, so the server handles one request at a time.              *)

\* environment={"FORWARD_TO": ...} of the proxy container, read by os.getenv
FORWARD_TO == "http://192.168.5.94:8000"

\* The paths of the two @app.post routes
INFERENCE_PATH == "/api/inference"
EMBEDDING_PATH == "/api/embedding"
RoutePaths == {INFERENCE_PATH, EMBEDDING_PATH}

\* What a client can send: a method, a path (a route, a route with a trailing
\* slash, anything else), a body
Methods == {"POST", "GET"}
RequestPaths == RoutePaths \cup {"/api/inference/", "/api/echo"}
Bodies == {"{}", "not json"}
Requests == [method : Methods, path : RequestPaths, body : Bodies]

\* The path with its trailing slash added or removed
ToggleSlash(path) ==
    CASE path = "/api/inference/" -> INFERENCE_PATH
      [] path = INFERENCE_PATH -> "/api/inference/"
      [] OTHER -> "none"

\* The coroutine registered for a path
HandlerOf(path) == IF path = INFERENCE_PATH THEN "proxy_inference" ELSE "proxy_embedding"

\* The variant of the routing that ignores the method
Route_AnyMethod(method, path) ==
    IF path \in RoutePaths
    THEN [handler |-> HandlerOf(path), status_code |-> 0]
    ELSE IF ToggleSlash(path) \in RoutePaths
    THEN [handler |-> "none", status_code |-> 307]
    ELSE [handler |-> "none", status_code |-> 404]

\* The routing of the FastAPI app over its two routes: the handler of a route
\* whose path and method match; 405 when only the path matches; a redirect to
\* the path with the slash toggled when that is a route; 404 otherwise
Route(method, path) ==
    IF path \in RoutePaths /\ method = "POST"
    THEN [handler |-> HandlerOf(path), status_code |-> 0]
    ELSE IF path \in RoutePaths
    THEN [handler |-> "none", status_code |-> 405]
    ELSE IF ToggleSlash(path) \in RoutePaths
    THEN [handler |-> "none", status_code |-> 307]
    ELSE [handler |-> "none", status_code |-> 404]

\* requests.exceptions: Timeout and its subclasses (ConnectTimeout is also a
\* ConnectionError), RequestException and its subclasses; any other Exception
Timeouts == {"ConnectTimeout", "ReadTimeout"}
RequestExceptions == Timeouts \cup {"ConnectionError", "ChunkedEncodingError"}
OtherExceptions == {"RuntimeError"}
PostExceptions == RequestExceptions \cup OtherExceptions

\* What the upstream answers: a status code, a body, and a Content-Type header or none
UpstreamStatusCodes == {200, 500}
UpstreamContents == {Str("{\"ok\": true}"), Str("")}
UpstreamContentTypes == {Str("application/json"), None}
Answer(status_code, content, content_type) ==
    [kind |-> "answer", status_code |-> status_code, content |-> content,
     content_type |-> content_type]
Raise(e) == [kind |-> "raise", e |-> e]
PostOutcomes ==
    {Answer(st, c, ct) : st \in UpstreamStatusCodes, c \in UpstreamContents,
                         ct \in UpstreamContentTypes}
    \cup {Raise(e) : e \in PostExceptions}

\* raise HTTPException(status_code=..., detail=...), as the app answers it
HTTPException(status_code, detail) ==
    [status_code |-> status_code, content |-> Dict([detail |-> Str(detail)]),
     content_type |-> Str("application/json")]

\* The variant that tests for RequestException first
ExceptionResponse_RequestFirst(e) ==
    IF e \in RequestExceptions
    THEN HTTPException(502, "Proxy error forwarding request")
    ELSE IF e \in Timeouts
    THEN HTTPException(504, "Proxy timeout forwarding request")
    ELSE HTTPException(500, "Proxy unexpected error")

\* Lines 55-63: the except clauses of forward_post_request, in their order
ExceptionResponse(e) ==
    IF e \in Timeouts
    THEN HTTPException(504, "Proxy timeout forwarding request")
    ELSE IF e \in RequestExceptions
    THEN HTTPException(502, "Proxy error forwarding request")
    ELSE HTTPException(500, "Proxy unexpected error")

\* Lines 49-53: Response(content=response.content, status_code=response.status_code,
\* headers={"Content-Type": response.headers.get("content-type")}). The header
\* values are encoded one by one: a value that is None raises AttributeError,
\* inside the try.
RelayResponse(answer) ==
    IF answer.content_type = None
    THEN ExceptionResponse("AttributeError")
    ELSE [status_code |-> answer.status_code, content |-> answer.content,
          content_type |-> answer.content_type]

\* The app answers a request no handler is registered for
not_served(req) ==
    /\ proxy.state = "running"
    /\ http.pc = "idle"
    /\ http.served < MaxRequests
    /\ Route(req.method, req.path).handler = "none"
    /\ http' = [http EXCEPT !.pc = "respond", !.request = req,
                            !.response = [NoResponse EXCEPT
                                !.status_code = Route(req.method, req.path).status_code]]
    /\ UNCHANGED <<sandboxes, sandbox_vars, log_docker_to_stdout, cleaners, manager, managers,
                   networks, proxy, peer, guest>>

\* Lines 34-37: forward_post_request(request, path) is entered
forward_post_request(req, path) ==
    /\ http' = [http EXCEPT !.pc = "body", !.request = req, !.path = path]
    /\ UNCHANGED <<sandboxes, sandbox_vars, log_docker_to_stdout, cleaners, manager, managers,
                   networks, proxy, peer, guest>>

\* Lines 22-24: @app.post("/api/inference")
proxy_inference(req) ==
    /\ proxy.state = "running"
    /\ http.pc = "idle"
    /\ http.served < MaxRequests
    /\ Route(req.method, req.path).handler = "proxy_inference"
    /\ forward_post_request(req, INFERENCE_PATH)

\* Lines 28-30: @app.post("/api/embedding")
proxy_embedding(req) ==
    /\ proxy.state = "running"
    /\ http.pc = "idle"
    /\ http.served < MaxRequests
    /\ Route(req.method, req.path).handler = "proxy_embedding"
    /\ forward_post_request(req, EMBEDDING_PATH)

\* Line 40: body = await request.body(); the client may have gone
forward_post_request_body(e) ==
    /\ http.pc = "body"
    /\ http' = IF e = NoExc
               THEN [http EXCEPT !.pc = "post", !.body = http.request.body]
               ELSE [http EXCEPT !.pc = "respond", !.outcome = Raise(e),
                                 !.response = ExceptionResponse(e)]
    /\ UNCHANGED <<sandboxes, sandbox_vars, log_docker_to_stdout, cleaners, manager, managers,
                   networks, proxy, peer, guest>>

\* Lines 42-63: requests.post(url=f"{FORWARD_TO}{path}", headers=..., data=body,
\* timeout=600), then the Response or the HTTPException
forward_post_request_post(outcome) ==
    /\ http.pc = "post"
    /\ http' = [http EXCEPT
                  !.pc = "respond",
                  !.outcome = outcome,
                  !.upstream = Append(@, [url |-> <<FORWARD_TO, http.path>>,
                                          content_type |-> Str("application/json"),
                                          data |-> http.body]),
                  !.response = IF outcome.kind = "answer"
                               THEN RelayResponse(outcome)
                               ELSE ExceptionResponse(outcome.e)]
    /\ UNCHANGED <<sandboxes, sandbox_vars, log_docker_to_stdout, cleaners, manager, managers,
                   networks, proxy, peer, guest>>

\* The response is sent; the server takes the next request
respond ==
    /\ http.pc = "respond"
    /\ http' = [NoTraffic EXCEPT !.upstream = http.upstream, !.served = http.served + 1]
    /\ UNCHANGED <<sandboxes, sandbox_vars, log_docker_to_stdout, cleaners, manager, managers,
                   networks, proxy, peer, guest>>

-----------------------------------------------------------------------------
Raises == DockerErrors \cup {NoExc}
CleanupFailures == {"none", "stop", "remove"}
\* The network mode that the n-th create_sandbox call of the interleavings passes:
\* the dual mode, whose worker takes every step, alternating with the default
ModeOfCall(n) == IF n % 2 = 1 THEN "both" ELSE "sandbox"

SuccessDocument == JsonFile(Dict([status |-> Str("success"), output |-> Str("pong")]))

\* The documents explored together with the interleavings of several sandboxes:
\* no file, a JSON null, a success document, an error document.
CommonDocuments ==
    {Absent, JsonFile(None), SuccessDocument,
     JsonFile(Dict([status |-> Str("error"), error |-> Str("boom")]))}

\* The orchestrator with up to MaxSandboxes sandboxes, over every output document
\* a guest can leave
Next ==
    \/ \E mount_ok, io_ok \in BOOLEAN, m \in NetworkModeArgs :
          nextId < MaxSandboxes /\ create_sandbox(mount_ok, io_ok, m)
    \/ \E id \in Ids : on_finish_return(id)
    \/ \E id \in Ids : run_sandbox_fetch(id)
    \/ \E id \in Ids, e \in Raises : run_sandbox_launch(id, e)
    \/ \E id \in Ids, e \in Raises : run_sandbox_connect(id, e)
    \/ \E id \in Ids : container_exit(id)
    \/ \E id \in Ids, e \in Raises : run_sandbox_wait(id, e)
    \/ \E id \in Ids, e \in Raises : run_sandbox_stream(id, e)
    \/ \E id \in Ids, e \in Raises : run_sandbox_logs(id, e)
    \/ \E id \in Ids, e \in Raises : run_sandbox_remove(id, e)
    \/ \E id \in Ids, doc \in OutputDocuments : run_sandbox_read(id, doc)
    \/ \E id \in Ids, f \in CleanupFailures : cleanup_sandbox(id, f)

Spec == Init /\ [][Next]_vars

\* The orchestrator with up to MaxManySandboxes sandboxes and the threads that clean
\* them up, interleaved: the on_finish callback of a worker calls cleanup_sandbox for
\* its sandbox, the driver calls cleanup_all
NextMany ==
    \/ \E mount_ok, io_ok \in BOOLEAN :
          /\ nextId < MaxManySandboxes
          /\ create_sandbox(mount_ok, io_ok, ModeOfCall(create_temp_dir))
    \/ \E id \in Ids : on_finish_return(id)
    \/ \E id \in Ids : run_sandbox_fetch(id)
    \/ \E id \in Ids, e \in Raises : run_sandbox_launch(id, e)
    \/ \E id \in Ids : run_sandbox_connect(id, NoExc)
    \/ \E id \in Ids : container_exit(id)
    \/ \E id \in Ids : run_sandbox_wait(id, NoExc)
    \/ \E id \in Ids : run_sandbox_logs(id, NoExc)
    \/ \E id \in Ids : run_sandbox_remove(id, NoExc)
    \/ \E id \in Ids, doc \in CommonDocuments : run_sandbox_read(id, doc)
    \/ \E id \in Ids : cleanup_sandbox_get(id, id)
    \/ \E t \in Threads : cleanup_sandbox_del(t, "none")
    \/ cleanup_all
    \/ cleanup_all_next

\* The lifetime of SandboxManager objects, one after the other, up to MaxManagers of
\* them, with up to MaxManagerSandboxes dual-mode sandboxes
NextManager ==
    \/ \E build_ok \in BOOLEAN : managers < MaxManagers /\ SandboxManager_init(build_ok)
    \/ \E e \in Raises : create_sandbox_network_get(e)
    \/ \E e \in Raises : create_sandbox_network_create(e)
    \/ \E e \in Raises : create_sandbox_proxy_run(e)
    \/ \E e \in Raises : create_sandbox_proxy_connect(e)
    \/ \E mount_ok \in BOOLEAN :
          /\ manager = "ready"
          /\ nextId < MaxManagerSandboxes
          /\ create_sandbox(mount_ok, TRUE, "both")
    \/ \E id \in Ids : on_finish_return(id)
    \/ \E id \in Ids : run_sandbox_fetch(id)
    \/ \E id \in Ids : run_sandbox_launch(id, NoExc)
    \/ \E id \in Ids : run_sandbox_connect(id, NoExc)
    \/ \E id \in Ids : container_exit(id)
    \/ \E id \in Ids : run_sandbox_wait(id, NoExc)
    \/ \E id \in Ids : run_sandbox_logs(id, NoExc)
    \/ \E id \in Ids : run_sandbox_remove(id, NoExc)
    \/ \E id \in Ids : run_sandbox_read(id, SuccessDocument)
    \/ \E id \in Ids : manager = "ready" /\ cleanup_sandbox(id, "none")
    \/ manager = "ready" /\ cleanup_all
    \/ cleanup_all_next
    \/ cleanup_sandbox_del(Main, "none")
    \/ SandboxManager_del
    \/ \E f \in CleanupFailures : del_proxy(f)

SpecManager == Boot /\ [][NextManager]_vars

\* One SandboxManager in either mode of log_docker_to_stdout, its engine working,
\* with guests that write any bytes to their streams
InitModes ==
    /\ NoSandboxes
    /\ log_docker_to_stdout \in BOOLEAN
    /\ manager = "ready"
    /\ managers = 1
    /\ networks = <<IsolatedNetwork>>
    /\ proxy = RunningProxy
    /\ http = NoTraffic
    /\ peer = "none"
    /\ guest \in [Ids -> GuestOutputs]

NextModes ==
    \/ nextId < MaxSandboxes /\ create_sandbox(TRUE, TRUE, "sandbox")
    \/ \E id \in Ids : on_finish_return(id)
    \/ \E id \in Ids : run_sandbox_fetch(id)
    \/ \E id \in Ids : run_sandbox_launch(id, NoExc)
    \/ \E id \in Ids : container_exit(id)
    \/ \E id \in Ids : run_sandbox_wait(id, NoExc)
    \/ \E id \in Ids : run_sandbox_stream(id, StreamDecode(guest[id]))
    \/ \E id \in Ids : run_sandbox_logs(id, LogsDecode(guest[id]))
    \/ \E id \in Ids : run_sandbox_remove(id, NoExc)
    \/ \E id \in Ids, doc \in CommonDocuments : run_sandbox_read(id, doc)

SpecModes == InitModes /\ [][NextModes]_vars

\* Error documents whose error field is there and holds the JSON value null
NullErrorDocuments ==
    {JsonFile(Dict([status |-> Str("error"), error |-> None])),
     JsonFile(Dict([status |-> Str("error"), error |-> None, traceback |-> Str("tb")]))}

ShapeDocuments == OutputDocuments \cup NullErrorDocuments

\* Every way a result reaches on_finish: from create_sandbox when on_mount fails,
\* from the except block when the launch fails, from a document of ShapeDocuments
\* after a run in either mode of log_docker_to_stdout
NextShapes ==
    \/ \E mount_ok \in BOOLEAN :
          nextId < MaxSandboxes /\ create_sandbox(mount_ok, TRUE, "sandbox")
    \/ \E id \in Ids : on_finish_return(id)
    \/ \E id \in Ids : run_sandbox_fetch(id)
    \/ \E id \in Ids, e \in Raises : run_sandbox_launch(id, e)
    \/ \E id \in Ids : container_exit(id)
    \/ \E id \in Ids : run_sandbox_wait(id, NoExc)
    \/ \E id \in Ids : run_sandbox_stream(id, NoExc)
    \/ \E id \in Ids : run_sandbox_logs(id, NoExc)
    \/ \E id \in Ids : run_sandbox_remove(id, NoExc)
    \/ \E id \in Ids, doc \in ShapeDocuments : run_sandbox_read(id, doc)

SpecShapes == Init /\ [][NextShapes]_vars

\* What networks.create(SANDBOX_NETWORK_NAME, ...) can do when the engine itself
\* works: it creates the network; when a network of that name exists it creates a
\* second one of the same name or refuses with a conflict, depending on the engine
CreateOutcomes == IF networks = <<>> THEN {NoExc} ELSE Raises

\* Two SandboxManager objects constructed at the same time on one engine that works,
\* and the sandboxes of the first
NextConcurrentInit ==
    \/ managers < MaxManagers /\ SandboxManager_init(TRUE)
    \/ create_sandbox_network_get(NoExc)
    \/ \E e \in CreateOutcomes : create_sandbox_network_create(e)
    \/ create_sandbox_proxy_run(NoExc)
    \/ create_sandbox_proxy_connect(NoExc)
    \/ peer_init
    \/ peer_create_sandbox_network_get(NoExc)
    \/ \E e \in CreateOutcomes : peer_create_sandbox_network_create(e)
    \/ \E mount_ok \in BOOLEAN :
          /\ manager = "ready"
          /\ nextId < MaxManagerSandboxes
          /\ create_sandbox(mount_ok, TRUE, "both")
    \/ \E id \in Ids : on_finish_return(id)
    \/ \E id \in Ids : run_sandbox_fetch(id)
    \/ \E id \in Ids : run_sandbox_launch(id, NoExc)
    \/ \E id \in Ids : run_sandbox_connect(id, NoExc)
    \/ \E id \in Ids : container_exit(id)
    \/ \E id \in Ids : run_sandbox_wait(id, NoExc)
    \/ \E id \in Ids : run_sandbox_logs(id, NoExc)
    \/ \E id \in Ids : run_sandbox_remove(id, NoExc)
    \/ \E id \in Ids : run_sandbox_read(id, SuccessDocument)

SpecConcurrentInit == Boot /\ [][NextConcurrentInit]_vars

\* The requests sent to the proxy server of a SandboxManager, whatever the upstream does
NextProxy ==
    \/ \E req \in Requests : not_served(req)
    \/ \E req \in Requests : proxy_inference(req)
    \/ \E req \in Requests : proxy_embedding(req)
    \/ \E e \in {NoExc, "ClientDisconnect"} : forward_post_request_body(e)
    \/ \E outcome \in PostOutcomes : forward_post_request_post(outcome)
    \/ respond

\* SandboxManager() with the default log_docker_to_stdout=False
InitMany == Init /\ ~log_docker_to_stdout

SpecMany == InitMany /\ [][NextMany]_vars

\* The proxy server of a SandboxManager that was constructed with the defaults
SpecProxy == InitMany /\ [][NextProxy]_vars

\* The on_finish callback that follows the note of create_sandbox ("You should call
\* cleanup_sandbox() from within the on_finish callback"): it calls cleanup_sandbox
\* for the sandbox whose result it was given
on_finish_cleanup(id, failure) ==
    /\ pc[id] = "on_finish"
    /\ id \in sandboxes
    /\ cleanup_sandbox(id, failure)

\* ... and returns once that call has returned
on_finish_cleaned_return(id) ==
    /\ id \notin sandboxes
    /\ on_finish_return(id)

\* A driver that creates up to MaxSandboxes sandboxes with such callbacks and then
\* polls get_num_sandboxes() (benchmark.py 124-125, cli.py 134-135)
NextQuiescence ==
    \/ \E mount_ok, io_ok \in BOOLEAN, m \in NetworkModeArgs :
          nextId < MaxSandboxes /\ create_sandbox(mount_ok, io_ok, m)
    \/ \E id \in Ids : run_sandbox_fetch(id)
    \/ \E id \in Ids, e \in Raises : run_sandbox_launch(id, e)
    \/ \E id \in Ids, e \in Raises : run_sandbox_connect(id, e)
    \/ \E id \in Ids : container_exit(id)
    \/ \E id \in Ids, e \in Raises : run_sandbox_wait(id, e)
    \/ \E id \in Ids, e \in Raises : run_sandbox_stream(id, e)
    \/ \E id \in Ids, e \in Raises : run_sandbox_logs(id, e)
    \/ \E id \in Ids, e \in Raises : run_sandbox_remove(id, e)
    \/ \E id \in Ids, doc \in OutputDocuments : run_sandbox_read(id, doc)
    \/ \E id \in Ids, f \in CleanupFailures : on_finish_cleanup(id, f)
    \/ \E id \in Ids : on_finish_cleaned_return(id)

\* Every worker thread (threading.Thread of line 172) and every callback keeps being
\* scheduled, and every running container exits; create_sandbox calls may stop at
\* any time
FairWorkers ==
    \A id \in Ids :
        /\ WF_vars(run_sandbox_fetch(id))
        /\ WF_vars(\E e \in Raises : run_sandbox_launch(id, e))
        /\ WF_vars(\E e \in Raises : run_sandbox_connect(id, e))
        /\ WF_vars(container_exit(id))
        /\ WF_vars(\E e \in Raises : run_sandbox_wait(id, e))
        /\ WF_vars(\E e \in Raises : run_sandbox_stream(id, e))
        /\ WF_vars(\E e \in Raises : run_sandbox_logs(id, e))
        /\ WF_vars(\E e \in Raises : run_sandbox_remove(id, e))
        /\ WF_vars(\E doc \in OutputDocuments : run_sandbox_read(id, doc))
        /\ WF_vars(\E f \in CleanupFailures : on_finish_cleanup(id, f))
        /\ WF_vars(on_finish_cleaned_return(id))

SpecQuiescence == Init /\ [][NextQuiescence]_vars /\ FairWorkers

-----------------------------------------------------------------------------
(* Vocabulary of the properties                                            *)

Range(seq) == {seq[n] : n \in DOMAIN seq}

\* on_mount raised in the create_sandbox call of this sandbox
MountFailed(id) == id <= nextId /\ "mount" \notin Range(events[id])

\* the container of this sandbox was started
Launched(id) == "launch" \in Range(events[id])

\* on_finish of this sandbox is executing
InOnFinish(id) == pc[id] = "on_finish"

\* the thread of this sandbox has ended, or create_sandbox has returned None
RunEnded(id) == pc[id] \in {"done", "rejected", "crashed", "returned"}

\* a JSON object with the given status
IsObject(doc) == doc.state = "json" /\ doc.value.kind = "dict"
HasField(doc, k) == k \in DOMAIN doc.value.val
Field(doc, k) == doc.value.val[k]
HasStatus(doc, st) == IsObject(doc) /\ HasField(doc, "status") /\ Field(doc, "status") = Str(st)

\* {"status": "success", "output": *}
IsSuccessDocument(doc) == HasStatus(doc, "success") /\ HasField(doc, "output")

-----------------------------------------------------------------------------
(* Properties                                                              *)

\* C1: for every create_sandbox call whose run has ended (on_mount failure, run
\* exception, protocol violation, guest error, success), under any interleaving
\* with cleanup_sandbox, on_finish was invoked exactly once: never zero times,
\* never twice.
C1_OnFinishExactlyOnce ==
    \A id \in Ids :
        /\ calls[id] <= 1
        /\ RunEnded(id) => calls[id] = 1

\* C2: when on_mount raises, on_finish is invoked inside create_sandbox, on the
\* caller's thread, with an error result that carries the failure message and the
\* stack trace; no worker thread is started, no container is ever launched for the
\* sandbox, the sandbox never enters the registry and get_num_sandboxes() is
\* unchanged by the call.
C2_MountFailureState ==
    \A id \in Ids :
        MountFailed(id) =>
            /\ calls[id] = 1
            /\ pc[id] \in {"on_finish", "rejected"}
            /\ InOnFinish(id) =>
                  /\ call[id].thread = "caller"
                  /\ call[id].e = "MountError"
                  /\ call[id].result =
                        [status |-> "error",
                         error |-> FStr("on_mount() callback failed: ", Exc(call[id].e)),
                         traceback |-> format_exc(call[id].e)]
            /\ docker[id].state = "absent"
            /\ ~Launched(id)
            /\ id \notin sandboxes

C2_MountFailureStep ==
    \A id \in Ids :
        (nextId' = id /\ nextId # id /\ MountFailed(id)') =>
            /\ get_num_sandboxes' = get_num_sandboxes
            /\ InOnFinish(id)'

C2_MountFailure == [](C2_MountFailureState) /\ [][C2_MountFailureStep]_vars

C2_Witness ==
    \E id \in Ids :
        /\ MountFailed(id) /\ InOnFinish(id)
        /\ call[id].result.traceback = format_exc("MountError")
        /\ get_num_sandboxes = 0

\* C3: whatever output.json is after the container exits (absent, unreadable, not
\* JSON, JSON but not an object, an object with any combination of fields), the
\* worker never ends with an unhandled exception, and every document that is not a
\* valid success document yields a result with status error.
C3_NoUnhandledException ==
    \A id \in Ids :
        /\ pc[id] # "crashed"
        /\ (InOnFinish(id) /\ call[id].doc # NotRead /\ ~IsSuccessDocument(call[id].doc))
              => call[id].result.status = "error"

\* C4: on_finish receives status success exactly when the container was launched,
\* no host-side exception occurred and output.json is an object with status
\* "success" and an output field; the result's output is then the document's output
\* field. A guest that leaves no output.json gets an error result (failed to read
\* output.json), never success.
C4_SuccessIffValidDocument ==
    \A id \in Ids :
        InOnFinish(id) =>
            /\ call[id].result.status = "success" <=>
                  (/\ call[id].thread = "worker"
                   /\ Launched(id)
                   /\ call[id].e = NoExc
                   /\ IsSuccessDocument(call[id].doc))
            /\ call[id].result.status = "success" =>
                  call[id].result.output = Field(call[id].doc, "output")
            /\ call[id].doc = Absent =>
                  /\ call[id].result.status = "error"
                  /\ call[id].result.error = MSG_READ_FAILED("FileNotFoundError")

C4_Witness ==
    \E id \in Ids :
        /\ InOnFinish(id)
        /\ call[id].result.status = "success"
        /\ call[id].result.output = Str("pong")
        /\ call[id].result.logs = ContainerLogs(id)

\* C5: validation of a JSON object gives each violation its own diagnostic, the
\* checks applied in this order and exactly one diagnostic produced: no status field;
\* status success without an output field; status error without an error field; any
\* other status value v, named in the diagnostic.
C5_Diagnostic(doc) ==
    IF ~HasField(doc, "status") THEN MSG_NO_STATUS
    ELSE IF HasStatus(doc, "success") /\ ~HasField(doc, "output") THEN MSG_NO_OUTPUT
    ELSE IF HasStatus(doc, "error") /\ ~HasField(doc, "error") THEN MSG_NO_ERROR
    ELSE IF ~HasStatus(doc, "success") /\ ~HasStatus(doc, "error")
         THEN MSG_INVALID_STATUS(Field(doc, "status"))
    ELSE None

C5_DiagnosticPerViolation ==
    \A id \in Ids :
        (InOnFinish(id) /\ IsObject(call[id].doc) /\ C5_Diagnostic(call[id].doc) # None) =>
            /\ call[id].result.status = "error"
            /\ call[id].result.error = C5_Diagnostic(call[id].doc)

C5_Witness ==
    \E id \in Ids :
        /\ InOnFinish(id)
        /\ HasStatus(call[id].doc, "bogus")
        /\ call[id].result.error = MSG_INVALID_STATUS(Str("bogus"))

\* C6: when output.json has status "error" and an error field, on_finish receives
\* status error, the document's error field verbatim as the error, the document's
\* traceback field as the traceback (None when the document has none), and the
\* container's captured logs.
C6_GuestErrorPropagated ==
    \A id \in Ids :
        (InOnFinish(id) /\ HasStatus(call[id].doc, "error") /\ HasField(call[id].doc, "error")) =>
            /\ call[id].result.status = "error"
            /\ call[id].result.error = Field(call[id].doc, "error")
            /\ call[id].result.traceback =
                  IF HasField(call[id].doc, "traceback")
                  THEN Field(call[id].doc, "traceback") ELSE None
            /\ call[id].result.logs = ContainerLogs(id)

C6_Witness ==
    \E id \in Ids :
        /\ InOnFinish(id)
        /\ HasStatus(call[id].doc, "error")
        /\ call[id].result.error = Str("boom")
        /\ call[id].result.traceback = Str("tb")

\* The steps inside the try block of _run_sandbox
TryBlock == {"launch", "connect", "wait", "logs", "remove"}

\* C7: an exception raised while the network configuration is chosen or the
\* container is launched, waited on, read for logs or removed never leaves the
\* worker: the step that raises it invokes on_finish, once, with an error result
\* that carries the exception message, the stack trace and the logs captured before
\* the exception.
C7_RunExceptionStep ==
    \A id \in Ids :
        (pc[id] \in TryBlock /\ pc'[id] \notin TryBlock \cup {"read"}) =>
            /\ InOnFinish(id)'
            /\ calls'[id] = calls[id] + 1
            /\ call'[id].thread = "worker"
            /\ call'[id].e \in DockerErrors \cup {"NotFound", "ValueError"}
            /\ call'[id].result =
                  [status |-> "error",
                   output |-> None,
                   error |-> MSG_RUN_FAILED(call'[id].e),
                   traceback |-> format_exc(call'[id].e),
                   logs |-> result[id].logs]

C7_RunExceptionDelivered == [][C7_RunExceptionStep]_vars

C7_Witness ==
    \E id \in Ids :
        /\ InOnFinish(id)
        /\ call[id].e \in DockerErrors
        /\ call[id].result.error = MSG_RUN_FAILED(call[id].e)
        /\ call[id].result.logs = ContainerLogs(id)
        /\ docker[id].state = "exited"

\* C8 as stated: whenever the container of a sandbox was started, the result that
\* on_finish receives has the container's captured output as its logs.
C8_LogsWheneverLaunched ==
    \A id \in Ids :
        (InOnFinish(id) /\ Launched(id)) => call[id].result.logs = ContainerLogs(id)

\* C8 amended: the result of the worker has the container's output as its logs
\* exactly when the worker had fetched the logs before it produced the result
\* (success, guest error, protocol violation, failure of the removal); a failure
\* before that (launch, wait, log retrieval) is reported with empty logs.
C8_LogsStep ==
    \A id \in Ids :
        (~InOnFinish(id) /\ InOnFinish(id)' /\ call'[id].thread = "worker") =>
            call'[id].result.logs =
                IF pc[id] \in {"remove", "read"} THEN ContainerLogs(id) ELSE Str("")

C8_LogsWhenCaptured == [][C8_LogsStep]_vars

C8_Witness ==
    \E id \in Ids :
        /\ InOnFinish(id)
        /\ call[id].doc = Absent
        /\ call[id].result.status = "error"
        /\ call[id].result.logs = ContainerLogs(id)

\* Position of an event in the history of a sandbox (0 when it did not occur)
Pos(seq, x) == IF x \in Range(seq) THEN CHOOSE n \in DOMAIN seq : seq[n] = x ELSE 0
Before(seq, a, b) == (a \in Range(seq) /\ b \in Range(seq)) => Pos(seq, a) < Pos(seq, b)
NoRepeat(seq) == \A m, n \in DOMAIN seq : seq[m] = seq[n] => m = n

\* C9 as stated: per sandbox, on_mount returns, then the container is launched, then
\* on_finish is invoked, then the cleanup takes place; no cleanup before on_finish.
C9_OrderWithCleanupLast ==
    \A id \in Ids :
        /\ Before(events[id], "mount", "launch")
        /\ Before(events[id], "launch", "finish")
        /\ Before(events[id], "finish", "cleanup")
        /\ "cleanup" \in Range(events[id]) => "finish" \in Range(events[id])

\* C9 amended: per sandbox, on_mount returns before the container is launched and
\* the container is launched before on_finish is invoked; the cleanup of a sandbox
\* takes place at most once and only after on_mount has returned, at any point after
\* that (before the launch, before on_finish or after it).
C9_Order ==
    \A id \in Ids :
        /\ NoRepeat(events[id])
        /\ Before(events[id], "mount", "launch")
        /\ Before(events[id], "launch", "finish")
        /\ Before(events[id], "mount", "cleanup")
        /\ Launched(id) => "mount" \in Range(events[id])
        /\ "cleanup" \in Range(events[id]) => "mount" \in Range(events[id])

\* The whole order, the cleanup last
C9_Witness ==
    \E id \in Ids :
        /\ events[id] = <<"mount", "launch", "finish", "cleanup">>
        /\ pc[id] = "done"

\* C10 as stated: on_finish is never invoked on the stack of the thread that called
\* create_sandbox.
C10_OnFinishOffCallerStack ==
    \A id \in Ids : InOnFinish(id) => call[id].thread = "worker"

\* C10 amended: create_sandbox returns once the sandbox is registered and its worker
\* is started, before any container exists; launch, wait, logs, read and on_finish
\* happen on the worker; on_finish runs on the stack of the caller of create_sandbox
\* only when on_mount raised.
C10_State ==
    \A id \in Ids :
        InOnFinish(id) =>
            /\ call[id].thread \in {"caller", "worker"}
            /\ call[id].thread = "caller" <=> MountFailed(id)

C10_Step ==
    \A id \in Ids :
        /\ (pc[id] = "none" /\ pc'[id] = "fetch") =>
              /\ id \in sandboxes'
              /\ docker'[id].state = "absent"
              /\ calls'[id] = 0
        /\ (docker[id].state = "absent" /\ docker'[id].state # "absent") => pc[id] = "launch"
        /\ (~InOnFinish(id) /\ InOnFinish(id)' /\ ~MountFailed(id)') =>
              pc[id] \in TryBlock \cup {"read"}

C10_CreateDoesNotWait == [](C10_State) /\ [][C10_Step]_vars

\* create_sandbox has returned: registered, worker started, nothing run yet
C10_Witness ==
    \E id \in Ids :
        /\ pc[id] = "fetch" /\ id \in sandboxes
        /\ docker[id].state = "absent" /\ calls[id] = 0

\* C11 as stated: cleanup_sandbox on a registered sandbox always ends with the
\* container stopped and removed, the workspace deleted and the id out of the registry.
C11_CleanupAlwaysRemovesContainer ==
    [][\A id \in Ids, f \in CleanupFailures :
          (id \in sandboxes /\ cleanup_sandbox(id, f)) =>
              /\ docker'[id].state = "absent"
              /\ id \notin temp_dirs'
              /\ id \notin sandboxes']_vars

\* C11 amended: cleanup_sandbox on a registered sandbox always ends with the
\* workspace deleted and the id out of the registry, whether or not stopping or
\* removing the container failed; the container is gone when both engine calls
\* succeeded or it was gone already, it is left as it was when stop() raised, and
\* left stopped but not removed when remove() raised.
C11_CleanupStep ==
    \A id \in Ids, f \in CleanupFailures :
        (id \in sandboxes /\ cleanup_sandbox(id, f)) =>
            /\ id \notin temp_dirs'
            /\ id \notin sandboxes'
            /\ get_num_sandboxes' = get_num_sandboxes - 1
            /\ (f = "none" \/ docker[id].state = "absent") => docker'[id].state = "absent"
            /\ f = "stop" => docker'[id] = docker[id]
            /\ (f = "remove" /\ docker[id].state # "absent") => docker'[id].state = "exited"

C11_CleanupBestEffort == [][C11_CleanupStep]_vars

\* A running container whose stop() raised: the sandbox is cleaned up all the same
C11_Witness ==
    \E id \in Ids :
        /\ events[id] = <<"mount", "launch", "cleanup">>
        /\ docker[id].state = "running"
        /\ id \notin sandboxes /\ id \notin temp_dirs

\* C12: cleanup_sandbox with an id that is not a key of the registry (never
\* created, rejected because on_mount raised, or cleaned up before) changes nothing:
\* not the registry, not get_num_sandboxes(), no container, no workspace; and a
\* sandbox that was cleaned up is out of the registry, so the second of two
\* cleanup_sandbox calls in a row is such a no-op.
C12_CleanedUpIsUnknown ==
    \A id \in Ids : "cleanup" \in Range(events[id]) => id \notin sandboxes

C12_UnknownIdStep ==
    \A id \in Ids :
        (id \notin sandboxes /\ \E f \in CleanupFailures : cleanup_sandbox(id, f)) =>
            /\ UNCHANGED <<sandboxes, sandbox, temp_dirs, docker>>
            /\ get_num_sandboxes' = get_num_sandboxes
            /\ UNCHANGED vars

C12_UnknownIdNoOp == [](C12_CleanedUpIsUnknown) /\ [][C12_UnknownIdStep]_vars

\* An id that on_mount's failure kept out of the registry: its workspace is still
\* there, and cleanup_sandbox leaves it there
C12_Witness ==
    \E id \in Ids :
        /\ MountFailed(id) /\ pc[id] = "rejected"
        /\ id \notin sandboxes /\ id \in temp_dirs
        /\ ENABLED cleanup_sandbox(id, "none")

\* the sandboxes that create_sandbox registered and no cleanup_sandbox has deleted
CreatedNotCleanedUp ==
    {id \in Ids : /\ pc[id] \notin {"none", "raised"}
                  /\ ~MountFailed(id)
                  /\ "cleanup" \notin Range(events[id])}

\* C13: under any interleaving of create_sandbox calls, workers and cleanup calls,
\* the registry holds exactly the sandboxes that were created and not yet cleaned
\* up, each entry with the metadata its create_sandbox call gave it, and
\* get_num_sandboxes() is the size of that set; a step registers or deletes at most
\* one entry: one more per successful create_sandbox, one less per completed
\* cleanup_sandbox of a registered id; cleanup_all on an empty registry changes nothing.
C13_RegistryState ==
    /\ sandboxes = CreatedNotCleanedUp
    /\ get_num_sandboxes = Cardinality(CreatedNotCleanedUp)
    /\ \A id \in sandboxes : sandbox[id].container <=> docker[id].state # "absent"

C13_RegistryStep ==
    /\ Cardinality(sandboxes' \ sandboxes) + Cardinality(sandboxes \ sandboxes') <= 1
    /\ \A id \in Ids :
          /\ (id \notin sandboxes /\ id \in sandboxes') <=>
                (pc[id] = "none" /\ pc'[id] = "fetch")
          /\ (id \in sandboxes /\ id \notin sandboxes') <=>
                (events'[id] = Append(events[id], "cleanup"))
          /\ sandbox'[id].network_mode # sandbox[id].network_mode =>
                (id \notin sandboxes /\ id \in sandboxes')
    /\ \A mount_ok, io_ok \in BOOLEAN, m \in NetworkModeArgs :
          create_sandbox(mount_ok, io_ok, m) =>
              IF mount_ok /\ io_ok
              THEN /\ get_num_sandboxes' = get_num_sandboxes + 1
                   /\ sandbox'[nextId'] = [network_mode |-> m, container |-> FALSE]
              ELSE sandboxes' = sandboxes
    /\ (cleanup_all /\ sandboxes = {}) => UNCHANGED vars

C13_RegistryExact == [](C13_RegistryState) /\ [][C13_RegistryStep]_vars

\* Two sandboxes created with different metadata; one was cleaned up while the
\* other, still registered, runs its container
C13_Witness ==
    \E i, j \in Ids :
        /\ i # j
        /\ "cleanup" \in Range(events[i]) /\ i \notin sandboxes
        /\ j \in sandboxes /\ docker[j].state = "running"
        /\ sandbox[i].network_mode # sandbox[j].network_mode
        /\ get_num_sandboxes = 1

\* C14: the end of a run never cleans the sandbox up: on every path of the worker
\* (success or any error result) the registry entry and the workspace stay in place,
\* so while and after on_finish runs, until cleanup_sandbox is called, the sandbox
\* is registered, counted by get_num_sandboxes() and its workspace exists; only a
\* cleanup_sandbox call takes an entry out of the registry or deletes a workspace.
C14_StillRegistered ==
    \A id \in Ids :
        (/\ pc[id] \in {"launch", "connect", "wait", "logs", "remove", "read", "on_finish",
                        "done", "crashed"}
         /\ ~MountFailed(id)
         /\ "cleanup" \notin Range(events[id])) =>
            /\ id \in sandboxes
            /\ id \in temp_dirs
            /\ get_num_sandboxes >= 1

C14_OnlyCleanupRemoves ==
    \A id \in Ids :
        ((id \in sandboxes /\ id \notin sandboxes') \/ (id \in temp_dirs /\ id \notin temp_dirs'))
            => /\ \E f \in CleanupFailures : cleanup_sandbox(id, f)
               /\ UNCHANGED <<pc, result, call, calls>>

C14_CompletionKeepsSandbox == [](C14_StillRegistered) /\ [][C14_OnlyCleanupRemoves]_vars

\* on_finish has returned with a result and nobody called cleanup_sandbox
C14_Witness ==
    \E id \in Ids :
        /\ pc[id] = "done" /\ calls[id] = 1
        /\ "cleanup" \notin Range(events[id])
        /\ id \in sandboxes /\ id \in temp_dirs /\ get_num_sandboxes = 1

\* C15: cleanup_all cleans up every sandbox registered when it is called and
\* completes without raising, also when the on_finish callback of a worker calls
\* cleanup_sandbox on one of those ids at the same time: no cleanup_sandbox call of
\* its loop ends in an exception.
C15_CleanupAllNeverRaises ==
    ~(cleaners[Main].pc = "raised" /\ cleaners[Main].op = "cleanup_all")

\* C16: the container of a sandbox in the default mode (SANDBOX) is attached to
\* the isolated network only, an internal network, never to the bridge, so that
\* the proxy is its only way out; the container of a PUBLIC sandbox is attached to
\* the bridge only, never to the isolated network. In both modes the network is
\* given to containers.run, and the attachment of a container never changes.
C16_Attachment ==
    \A id \in Ids :
        docker[id].state # "absent" =>
            /\ sandbox[id].network_mode = "sandbox" =>
                  /\ docker[id].networks = {SANDBOX_NETWORK_NAME}
                  /\ \A n \in DOMAIN networks : networks[n].internal
            /\ sandbox[id].network_mode = "public" =>
                  docker[id].networks = {BRIDGE_NETWORK_NAME}

C16_ChosenAtLaunch ==
    \A id \in Ids :
        (/\ sandbox[id].network_mode \in {"sandbox", "public"}
         /\ docker[id].state # "absent" /\ docker'[id].state # "absent")
            => docker'[id].networks = docker[id].networks

C16_NetworkByMode == [](C16_Attachment) /\ [][C16_ChosenAtLaunch]_vars

\* A running container of the default mode, on the isolated network, next to the proxy
C16_Witness ==
    \E id \in Ids :
        /\ sandbox[id].network_mode = "sandbox"
        /\ docker[id].state = "running"
        /\ docker[id].networks = {SANDBOX_NETWORK_NAME}
        /\ proxy.state = "running"
        /\ proxy.networks = {SANDBOX_NETWORK_NAME, BRIDGE_NETWORK_NAME}

\* C17: provisioning the isolated network is idempotent: when the lookup finds the
\* network, _create_sandbox_network creates nothing and raises nothing, so the
\* provisioning of a second SandboxManager leaves the one network there is (an
\* internal bridge network with the fixed name) and changes nothing in the engine;
\* the network is created only after the lookup reported it absent, and any other
\* failure of the lookup ends __init__ with no network created.
C17_OneNetwork ==
    /\ Len(networks) <= 1
    /\ \A n \in DOMAIN networks : networks[n] = IsolatedNetwork
    /\ manager \in {"proxy", "proxy_connect", "ready", "del", "dead"} => Len(networks) = 1
    /\ manager = "network_create" => networks = <<>>

C17_ProvisioningStep ==
    /\ \A e \in Raises :
          create_sandbox_network_get(e) =>
              /\ UNCHANGED <<networks, proxy, sandboxes, sandbox_vars>>
              /\ (e = NoExc /\ networks # <<>>) => manager' = "proxy"
              /\ (e = NoExc /\ networks = <<>>) => manager' = "network_create"
              /\ e # NoExc => manager' = "failed"
    /\ networks' # networks =>
          /\ manager = "network_create"
          /\ networks = <<>>
          /\ networks' = <<IsolatedNetwork>>

C17_ProvisioningIdempotent == [](C17_OneNetwork) /\ [][C17_ProvisioningStep]_vars

\* The second SandboxManager has done its provisioning, after a first one that got
\* as far as starting the proxy: still one network
C17_Witness ==
    /\ managers = 2
    /\ manager = "proxy"
    /\ proxy.state # "absent"
    /\ networks = <<IsolatedNetwork>>

\* C18 as stated: from the end of __init__ until the finalizer there is exactly one
\* proxy container, and after the finalizer has run it is stopped and removed.
C18_ProxyRemovedAtShutdown ==
    /\ manager \in {"ready", "del"} => proxy.state = "running"
    /\ manager = "dead" => proxy.state = "absent"

\* C18 amended: from the end of __init__ until the finalizer there is exactly one
\* proxy container, started once, in __init__, before any create_sandbox call can be
\* made; no sandbox operation (create_sandbox, the worker, cleanup_sandbox,
\* cleanup_all) starts, stops or removes it; the finalizer, once cleanup_all has
\* emptied the registry, stops and removes it, unless stop() or remove() raises: the
\* exception is swallowed and the container stays, running or stopped.
C18_OneProxy ==
    /\ manager \in {"ready", "del"} =>
          /\ proxy.state = "running"
          /\ proxy.proxy_container
          /\ SANDBOX_NETWORK_NAME \in proxy.networks
    /\ manager = "none" => proxy.state = "absent" /\ nextId = 0

C18_ProxyStep ==
    /\ nextId' # nextId => manager = "ready" /\ proxy.state = "running"
    /\ <<proxy.state, proxy.networks>>' # <<proxy.state, proxy.networks>> =>
          \/ manager = "proxy" /\ proxy.state = "absent" /\ proxy'.state = "running"
          \/ manager = "proxy_connect" /\ proxy'.state = proxy.state
          \/ manager = "del" /\ manager' = "dead"
    /\ \A f \in CleanupFailures :
          del_proxy(f) =>
              /\ sandboxes = {}
              /\ f = "none" => proxy'.state = "absent"
              /\ f = "stop" => proxy'.state = "running"
              /\ f = "remove" => proxy'.state = "exited"

C18_ProxyLifetime == [](C18_OneProxy) /\ [][C18_ProxyStep]_vars

\* The finalizer has cleaned up the sandbox that was left and removed the proxy
C18_Witness ==
    /\ manager = "dead" /\ managers = 1
    /\ proxy.state = "absent"
    /\ \E id \in Ids : pc[id] = "done" /\ "cleanup" \in Range(events[id])

\* everything that belongs to one sandbox
Belongings(id) ==
    <<sandbox[id], docker[id], pc[id], result[id], call[id], calls[id], events[id],
      id \in sandboxes, id \in temp_dirs>>

\* the sandbox has failed: on_mount raised, the run raised, output.json broke the
\* protocol or reported an error
Failed(id) ==
    \/ pc[id] = "crashed"
    \/ InOnFinish(id) /\ call[id].result.status = "error"

\* C19: a failure of one sandbox (on_mount raises, the launch raises, output.json
\* is missing or not an object, the guest reports an error) changes nothing that
\* belongs to another sandbox: registry entry, workspace, container, worker, result;
\* the result a worker delivers is made of its own container's logs and its own
\* document; and create_sandbox can still be called.
C19_OwnResult ==
    /\ \A id \in Ids :
          (InOnFinish(id) /\ call[id].thread = "worker") =>
              /\ call[id].result.logs \in {Str(""), ContainerLogs(id)}
              /\ call[id].doc = SuccessDocument <=> call[id].result.status = "success"
    /\ (nextId < MaxManySandboxes /\ \E id \in Ids : Failed(id)) =>
          ENABLED create_sandbox(TRUE, TRUE, ModeOfCall(create_temp_dir))

C19_FailureStep ==
    \A i \in Ids :
        (Belongings(i)' # Belongings(i)) =>
            \A j \in Ids \ {i} : Belongings(j)' = Belongings(j)

C19_FailureIsolated == [](C19_OwnResult) /\ [][C19_FailureStep]_vars

\* One worker died on its output.json while another one delivers a success
C19_Witness ==
    \E i, j \in Ids :
        /\ i # j
        /\ pc[i] = "crashed"
        /\ InOnFinish(j) /\ call[j].result.status = "success"
        /\ j \in sandboxes /\ j \in temp_dirs

\* on_mount returned, and copying the script or writing input.json then failed:
\* the sandbox was never registered
WorkspaceIOFailed(id) ==
    /\ id <= nextId
    /\ "mount" \in Range(events[id])
    /\ id \notin sandboxes
    /\ "cleanup" \notin Range(events[id])

\* C20: a workspace I/O failure in create_sandbox after on_mount succeeded is
\* reported at once through on_finish as an error result, with no container
\* launched and nothing registered; it does not leave create_sandbox as an exception.
C20_IOFailureReported ==
    \A id \in Ids :
        WorkspaceIOFailed(id) =>
            /\ pc[id] # "raised"
            /\ calls[id] = 1
            /\ docker[id].state = "absent"

\* the proxy has called the upstream for the request it is answering, and the
\* upstream has answered
UpstreamAnswered == http.pc = "respond" /\ http.outcome.kind = "answer"

\* the forwarding of the request the proxy is answering has failed with e
ForwardingFailed(e) == http.pc = "respond" /\ http.outcome = Raise(e)

\* C21: the proxy turns every failure of the forwarding into a response: 504 for
\* a timeout of the upstream (never 502, although a timeout is a request failure
\* too), 502 for any other failure of the request, 500 for any other fault; and
\* when the upstream answers, the response has the status code and the body of
\* the upstream's answer.
C21_FailuresMappedAnswersRelayed ==
    /\ \A e \in Timeouts : ForwardingFailed(e) => http.response.status_code = 504
    /\ \A e \in RequestExceptions \ Timeouts :
          ForwardingFailed(e) => http.response.status_code = 502
    /\ \A e \in OtherExceptions \cup {"ClientDisconnect"} :
          ForwardingFailed(e) => http.response.status_code = 500
    /\ UpstreamAnswered =>
          /\ http.response.status_code = http.outcome.status_code
          /\ http.response.content = http.outcome.content

\* the request is one the proxy forwards: a POST on a route
Whitelisted(req) == req.method = "POST" /\ req.path \in RoutePaths

\* C22: the proxy calls the upstream only for a POST on one of its two routes
\* (inference, embedding), once, at the same path under FORWARD_TO and with the
\* body of the request as it came; a request on another path or with another
\* method is answered without any call to the upstream.
C22_State ==
    /\ http.pc \in {"body", "post"} => Whitelisted(http.request)
    /\ (http.pc = "respond" /\ ~Whitelisted(http.request)) =>
          /\ http.outcome = NoOutcome
          /\ http.response.status_code \in {307, 404, 405}
    /\ Len(http.upstream) <= http.served + 1

C22_Step ==
    http'.upstream # http.upstream =>
        /\ Whitelisted(http.request)
        /\ http'.request = http.request
        /\ http'.upstream =
              Append(http.upstream, [url |-> <<FORWARD_TO, http.request.path>>,
                                     content_type |-> Str("application/json"),
                                     data |-> http.request.body])

C22_OnlyWhitelistedForwarded == [](C22_State) /\ [][C22_Step]_vars

\* A POST on the embedding route was forwarded with its body; the GET on the same
\* path that came next is answered with no further call
C22_Witness ==
    /\ http.served = 1
    /\ http.upstream = <<[url |-> <<FORWARD_TO, EMBEDDING_PATH>>,
                          content_type |-> Str("application/json"),
                          data |-> "not json"]>>
    /\ http.pc = "respond"
    /\ http.request = [method |-> "GET", path |-> EMBEDDING_PATH, body |-> "not json"]
    /\ http.response.status_code = 405

\* The result the worker makes of a document, given the logs it has captured
DocumentResult(id, doc) ==
    LET r == [InitialResult EXCEPT !.logs = ContainerLogs(id)]
        rd == ReadOutput(doc, r)
    IN IF rd.raises # NoExc THEN rd.result ELSE ValidateOutput(rd.output, r).result

\* C23: the container of a dual-mode (BOTH) sandbox is launched on the isolated
\* network and is connected to the bridge only afterwards, by the worker's next
\* step; when that connect fails the worker goes on to wait for the container
\* exactly as when it succeeds: no on_finish call, no change to the result; and the
\* result the worker delivers after a run without exception is made of the output
\* document and the logs only.
C23_State ==
    \A id \in Ids :
        /\ (sandbox[id].network_mode = "both" /\ pc[id] = "connect") =>
              docker[id].networks \subseteq {SANDBOX_NETWORK_NAME}
        /\ (sandbox[id].network_mode = "both" /\ docker[id].state # "absent") =>
              SANDBOX_NETWORK_NAME \in docker[id].networks
        /\ (InOnFinish(id) /\ call[id].thread = "worker" /\ call[id].doc # NotRead) =>
              /\ call[id].e \in {NoExc} \cup FileErrors
              /\ call[id].result = DocumentResult(id, call[id].doc)

C23_Step ==
    \A id \in Ids :
        /\ (docker[id].state = "absent" /\ docker'[id].state # "absent"
              /\ sandbox[id].network_mode = "both") =>
              /\ docker'[id].networks = {SANDBOX_NETWORK_NAME}
              /\ pc'[id] = "connect"
        /\ (BRIDGE_NETWORK_NAME \in docker'[id].networks
              /\ BRIDGE_NETWORK_NAME \notin docker[id].networks
              /\ sandbox[id].network_mode = "both") =>
              /\ pc[id] = "connect"
              /\ docker[id].state # "absent"
        /\ \A e \in Raises :
              run_sandbox_connect(id, e) =>
                  /\ pc'[id] = "wait"
                  /\ UNCHANGED <<result, call, calls, events, sandboxes, sandbox, temp_dirs>>
                  /\ docker'[id].state = docker[id].state
                  /\ e # NoExc => docker' = docker

C23_AttachBestEffort == [](C23_State) /\ [][C23_Step]_vars

\* The connect to the bridge failed; the container has run on the isolated network
\* alone and has exited, and the worker has gone on to fetch its logs
C23_Witness ==
    \E id \in Ids :
        /\ sandbox[id].network_mode = "both"
        /\ pc[id] = "logs"
        /\ docker[id] = [state |-> "exited", networks |-> {SANDBOX_NETWORK_NAME}]
        /\ calls[id] = 0

\* attached to the isolated network and to the bridge at once
OnBothNetworks(nets) == {SANDBOX_NETWORK_NAME, BRIDGE_NETWORK_NAME} \subseteq nets

Provisioned(position) == position \notin {"none", "network", "network_create"}

\* C25: when two SandboxManager initializations run _create_sandbox_network (the
\* lookup, then the creation if absent) at the same time and the isolated network
\* is not there at first, then in every interleaving, once both are through, there
\* is exactly one network named SANDBOX_NETWORK_NAME and neither initialization
\* has failed.
C25_ConcurrentProvisioningSafe ==
    (Provisioned(manager) /\ Provisioned(peer)) =>
        /\ Len(networks) = 1
        /\ manager # "failed"
        /\ peer # "failed"

\* the worker has fetched the logs of the container, which it does once the wait
\* for the exit has returned
LogsCaptured(id, r) == r.logs = ContainerLogs(id)

\* C26 as stated: after the container has exited, the worker captures the logs,
\* removes the container and clears the handle, reads and validates output.json,
\* invokes on_finish; whenever on_finish is invoked after the exit, no container
\* is bound to the sandbox.
C26_NoContainerAtOnFinish ==
    \A id \in Ids :
        /\ pc[id] \in {"fetch", "launch"} => ~sandbox[id].container
        /\ pc[id] \in {"remove", "read"} => LogsCaptured(id, result[id])
        /\ (InOnFinish(id) /\ call[id].thread = "worker" /\ LogsCaptured(id, call[id].result)) =>
              ~sandbox[id].container

\* C26 amended: after the wait for the exit has returned, the worker captures the
\* logs, then removes the container and clears the handle, then reads and
\* validates output.json, then invokes on_finish: the container is there while the
\* logs are fetched, and when on_finish is invoked with a result made of the
\* document the container is gone and the handle is clear (as it is until the
\* launch). When fetching the logs or removing the container raises, on_finish is
\* invoked with the error result of that exception and the handle stays bound.
C26_State ==
    \A id \in Ids :
        /\ pc[id] \in {"fetch", "launch"} => ~sandbox[id].container
        /\ pc[id] \in {"remove", "read"} => LogsCaptured(id, result[id])
        /\ pc[id] = "read" => ~sandbox[id].container /\ docker[id].state = "absent"
        /\ (InOnFinish(id) /\ call[id].doc # NotRead) =>
              /\ ~sandbox[id].container
              /\ docker[id].state = "absent"
              /\ LogsCaptured(id, call[id].result)
        /\ (InOnFinish(id) /\ call[id].thread = "worker" /\ sandbox[id].container) =>
              /\ call[id].e \in DockerErrors \cup {"NotFound"}
              /\ call[id].result.status = "error"
              /\ call[id].result.error = MSG_RUN_FAILED(call[id].e)

C26_Step ==
    \A id \in Ids :
        /\ (pc[id] = "logs" /\ pc'[id] = "remove") =>
              /\ docker[id].state # "absent"
              /\ docker'[id] = docker[id]
              /\ result'[id].logs = ContainerLogs(id)
        /\ (pc[id] = "remove" /\ pc'[id] = "read") =>
              /\ docker[id].state # "absent"
              /\ docker'[id] = NoContainer
              /\ ~sandbox'[id].container
              /\ result'[id] = result[id]
        /\ pc'[id] = "read" => pc[id] \in {"remove", "read"}
        /\ pc'[id] = "remove" => pc[id] \in {"logs", "remove"}
        /\ (~InOnFinish(id) /\ InOnFinish(id)' /\ call'[id].doc # NotRead) => pc[id] = "read"

C26_ExitOrder == [](C26_State) /\ [][C26_Step]_vars

\* on_finish runs with a result made of the guest's error document and the logs:
\* the container is removed, the handle clear, the sandbox still registered
C26_Witness ==
    \E id \in Ids :
        /\ InOnFinish(id)
        /\ HasStatus(call[id].doc, "error")
        /\ LogsCaptured(id, call[id].result)
        /\ ~sandbox[id].container /\ docker[id].state = "absent"
        /\ id \in sandboxes

\* C27: every result handed to on_finish has one of two shapes: status success
\* with the guest's output, no error message and no traceback; or status error
\* with an error message that is not None and no output.
C27_ResultShapes ==
    \A id \in Ids :
        InOnFinish(id) =>
            LET r == call[id].result IN
            /\ r.status \in {"success", "error"}
            /\ r.status = "success" =>
                  /\ r.output = Field(call[id].doc, "output")
                  /\ r.error = None
                  /\ r.traceback = None
            /\ r.status = "error" =>
                  /\ r.error # None
                  /\ "output" \in DOMAIN r => r.output = None

\* The result of the blocking mode (container.wait()) for what the guest wrote to
\* its streams and the document it left
BlockingResult(id, doc) ==
    IF guest[id].stdout = "utf-8"
    THEN DocumentResult(id, doc)
    ELSE finish_with_error(MSG_RUN_FAILED("UnicodeDecodeError"),
             [InitialResult EXCEPT !.traceback = format_exc("UnicodeDecodeError")])

\* C28: blocking until the exit and streaming the output until the exit are the same
\* for the caller: for the same guest and the same output.json, in either mode
\* on_finish is invoked only once the container has exited, with the same result,
\* the sandbox registered and its container handle in the same state.
C28_ModesEquivalent ==
    \A id \in Ids :
        (InOnFinish(id) /\ call[id].thread = "worker") =>
            /\ docker[id].state # "running"
            /\ call[id].result = BlockingResult(id, call[id].doc)
            /\ id \in sandboxes
            /\ sandbox[id].container <=> guest[id].stdout # "utf-8"

\* the ids that create_sandbox has given out, those cleaned up included
EverCreated == {id \in Ids : pc[id] # "none"}

\* C29: create_sandbox never gives out an id (a workspace) that an earlier call
\* has given out, whether that sandbox is still registered or was cleaned up; and a
\* workspace has at most one container bound to it: the one its worker launches,
\* once, under the name of the sandbox.
C29_State ==
    /\ EverCreated = 1..nextId
    /\ \A id \in Ids :
          /\ id \notin EverCreated =>
                /\ id \notin temp_dirs /\ id \notin sandboxes
                /\ docker[id].state = "absent" /\ events[id] = <<>>
          /\ docker[id].state # "absent" => Launched(id)
          /\ NoRepeat(events[id])

C29_Step ==
    /\ \A mount_ok, io_ok \in BOOLEAN, m \in NetworkModeArgs :
          create_sandbox(mount_ok, io_ok, m) =>
              /\ nextId' \notin EverCreated
              /\ nextId' \notin temp_dirs
              /\ EverCreated' = EverCreated \cup {nextId'}
    /\ EverCreated \subseteq EverCreated'
    /\ \A id \in Ids :
          (docker[id].state = "absent" /\ docker'[id].state # "absent") =>
              /\ pc[id] = "launch"
              /\ ~Launched(id)

C29_IdNeverReused == [](C29_State) /\ [][C29_Step]_vars

\* The first sandbox was cleaned up and its workspace is gone; the second has its
\* own id and workspace, and its container runs
C29_Witness ==
    /\ nextId = 2
    /\ "cleanup" \in Range(events[1]) /\ 1 \notin temp_dirs /\ 1 \notin sandboxes
    /\ 2 \in sandboxes /\ 2 \in temp_dirs
    /\ docker[2].state = "running" /\ docker[1].state = "absent"

\* C30: with fair workers, containers that exit and callbacks that call
\* cleanup_sandbox for their own sandbox, get_num_sandboxes() eventually is 0 and
\* stays 0 once the create_sandbox calls have ended, whatever output.json the
\* guests leave: the loop "while get_num_sandboxes() > 0: sleep" ends.
C30_Quiescence == <>[](get_num_sandboxes = 0)

\* C31: once cleanup_sandbox(id) has returned, the engine has no container of that
\* sandbox and gets none later, at whatever point of the worker's run the call was
\* made: before the launch, during the wait, or from the callback.
C31_NoContainerAfterCleanup ==
    \A id \in Ids :
        "cleanup" \in Range(events[id]) => docker[id].state = "absent"

\* C32: after the finalizer of the SandboxManager has run, what __init__ acquired
\* for the proxy is released: the proxy container is stopped and removed, and the
\* temp directory that _create_sandbox_proxy created is deleted.
C32_ProxyResourcesReleased ==
    manager = "dead" => (proxy.state = "absent" /\ ~proxy.workspace)

====
